---- MODULE Spec2Model ----
(***************************************************************************)
(* Day-by-day simulation of a concentrated-liquidity position              *)
(* (src/strategies.py) driven by the Uniswap-V3 math library               *)
(* (src/cls/uniswap_v3_math.py).                                           *)
(*                                                                         *)
(* Numbers.  The program computes in binary floating point.  Here every    *)
(* real quantity (prices, USD amounts, liquidity, square roots) is a       *)
(* fixed-point integer with ONE = 10^4 units per 1.0; products and         *)
(* quotients round toward minus infinity.  Gas units are plain integers.   *)
(* Magnitudes are chosen around 1.0 so that every intermediate product     *)
(* stays below 2^31.                                                       *)
(*                                                                         *)
(* The broker's cash is the value after the queued add_cash calls have     *)
(* been applied.                                                           *)
(*                                                                         *)
(* Spec runs the strategies over the daily feeds.  SpecRanges runs them    *)
(* with LP ranges at the thresholds of the holding-period rule,            *)
(* SpecEmptyPool over a pool without liquidity and with little cash, and   *)
(* SpecMath applies the functions of the math library to inputs drawn      *)
(* from small grids.  SpecUnlistedTier runs the strategies over pools      *)
(* whose fee tier is not in the table, SpecTightCash with hardly any       *)
(* starting cash, SpecPair runs two strategies over the same data in any   *)
(* interleaving, SpecMain is the driver backtest_uniswap_v3 of             *)
(* src/main.py with the runs it starts, and SpecGas the constructor of     *)
(* GasEstimator (src/cls/gas_estimator.py).  SpecAverageGas follows the    *)
(* constructor by a call of get_average_gas whose log queries fail or      *)
(* return any number of logs (SpecAverageGasFair: every query comes back), *)
(* and SpecTickRanges runs the strategies over other ticks and wider       *)
(* ranges.                                                                 *)
(***************************************************************************)
EXTENDS Integers, Sequences, FiniteSets, TLC

\* ------------------------------------------------------------------ bounds

\* Number of days (calls of next) of a stepped feed.
MaxDays == 15

\* Number of days of a stepped feed whose token1 price differs from the row before.
MaxChanges == 2

\* Number of days of a strictly rising feed.
RisingDays == 61

\* Days of the data that two runs of a pair both read.
PairDays == 15

\* The ticks handed to tick_to_price reach MaxTickSteps strides either way.
MaxTickSteps == 6

\* ------------------------------------------------------------- fixed point

ONE == 10^4

Abs(x) == IF x < 0 THEN -x ELSE x

Min(a, b) == IF a <= b THEN a ELSE b

Mul(a, b) == (a * b) \div ONE

Div(a, b) == (a * ONE) \div b

RECURSIVE SqrtSearch(_, _, _)
\* Largest r in lo..hi with r*r <= n (binary search).
SqrtSearch(n, lo, hi) ==
    IF lo >= hi THEN lo
    ELSE LET mid == (lo + hi + 1) \div 2
         IN  IF mid * mid <= n THEN SqrtSearch(n, mid, hi)
                               ELSE SqrtSearch(n, lo, mid - 1)

\* x ** 0.5 on fixed-point numbers: floor(sqrt(x * ONE)).
Sqrt(x) == SqrtSearch(x * ONE, 0, 46340)

RECURSIVE Pow10(_)
Pow10(n) == IF n = 0 THEN 1 ELSE 10 * Pow10(n - 1)

RECURSIVE SumSeq(_)
\* Python's sum() of a list.
SumSeq(s) == IF s = <<>> THEN 0 ELSE Head(s) + SumSeq(Tail(s))

\* Python's round(x, 2): to the nearest hundredth, ties to even.
Round2(x) ==
    LET cent == ONE \div 100
        q    == x \div cent
        r    == x % cent
    IN  IF 2 * r < cent THEN q * cent
        ELSE IF 2 * r > cent THEN (q + 1) * cent
        ELSE IF q % 2 = 0 THEN q * cent ELSE (q + 1) * cent

\* ------------------------------------------ cls/uniswap_v3_math.py (pure)

\* 1.0001
TICK_BASE == 10001

\* 2**96 in the source: a power of two large enough for on-chain integer
\* arithmetic.  It scales every sqrt ratio alike and cancels in every
\* liquidity formula; 2.0 keeps the products of this model below 2^31.
Q96 == 2 * ONE

\* The product of two numbers held with ONE * ONE units per 1.0, rounded
\* down; the factors are split so that no partial product overflows.
MulFine(a, b) ==
    LET ah == a \div ONE
        al == a % ONE
        bh == b \div ONE
        bl == b % ONE
    IN  ah * bh + (ah * bl + al * bh + (al * bl) \div ONE) \div ONE

\* 1.0001 and 1 / 1.0001 with ONE * ONE units per 1.0, the second rounded
\* down: 1 - (1.0001 - 1) / 1.0001.
TickUp == TICK_BASE * ONE

TickDown == ONE * ONE - (ONE * ONE * (TICK_BASE - ONE) + TICK_BASE - 1) \div TICK_BASE

RECURSIVE PowFine(_, _)
\* b ** n for an integer n >= 0, with ONE * ONE units per 1.0 so that the
\* compounding of the 0.01 % steps is kept.
PowFine(b, n) ==
    IF n = 0 THEN ONE * ONE
    ELSE IF n % 2 = 1 THEN MulFine(PowFine(b, n - 1), b)
    ELSE LET h == PowFine(b, n \div 2) IN MulFine(h, h)

\* Mutant of tick_to_price: the first-order approximation 1 + tick * 0.0001.
tick_to_price_linear(tick) == ONE + tick * (TICK_BASE - ONE)

tick_to_price(tick) ==
    IF tick >= 0 THEN PowFine(TickUp, tick) \div ONE
                 ELSE PowFine(TickDown, -tick) \div ONE

\* Mutant of get_tier_percentage: tier 500 is read as 0.5 %.
get_tier_percentage_half_percent(tier) ==
    IF tier = 100 THEN Div(ONE \div 100, 100 * ONE)
    ELSE IF tier = 500 THEN Div(5 * (ONE \div 10), 100 * ONE)
    ELSE IF tier = 3000 THEN Div(3 * (ONE \div 10), 100 * ONE)
    ELSE IF tier = 10000 THEN Div(ONE, 100 * ONE)
    ELSE 0

\* Mutant of get_tier_percentage: a tier outside the table is charged like
\* the 0.3 % tier.
get_tier_percentage_with_default(tier) ==
    IF tier = 100 THEN Div(ONE \div 100, 100 * ONE)
    ELSE IF tier = 500 THEN Div(5 * (ONE \div 100), 100 * ONE)
    ELSE IF tier = 10000 THEN Div(ONE, 100 * ONE)
    ELSE Div(3 * (ONE \div 10), 100 * ONE)

get_tier_percentage(tier) ==
    IF tier = 100 THEN Div(ONE \div 100, 100 * ONE)
    ELSE IF tier = 500 THEN Div(5 * (ONE \div 100), 100 * ONE)
    ELSE IF tier = 3000 THEN Div(3 * (ONE \div 10), 100 * ONE)
    ELSE IF tier = 10000 THEN Div(ONE, 100 * ONE)
    ELSE 0

\* delta_liquidity / (liquidity + delta_liquidity) on floats: Python raises
\* ZeroDivisionError when the divisor is 0.
calculate_fee_raises(delta_liquidity, liquidity) == liquidity + delta_liquidity = 0

\* Mutant of calculate_fee: the share is taken of the pool's liquidity before
\* the position is added.
calculate_fee_of_pool_share(delta_liquidity, liquidity, volume, pool_fee_tier) ==
    LET fee_tier_percentage  == get_tier_percentage(pool_fee_tier)
        liquidity_percentage == IF liquidity = 0 THEN 0
                                ELSE Div(delta_liquidity, liquidity)
    IN  Mul(Mul(fee_tier_percentage, volume), liquidity_percentage)

\* Mutant of calculate_fee: the share is the pool's part of the liquidity, not
\* the position's.
calculate_fee_with_pool_part(delta_liquidity, liquidity, volume, pool_fee_tier) ==
    LET fee_tier_percentage  == get_tier_percentage(pool_fee_tier)
        liquidity_percentage == ONE - Div(delta_liquidity, liquidity + delta_liquidity)
    IN  Mul(Mul(fee_tier_percentage, volume), liquidity_percentage)

calculate_fee(delta_liquidity, liquidity, volume, pool_fee_tier) ==
    LET fee_tier_percentage  == get_tier_percentage(pool_fee_tier)
        liquidity_percentage == Div(delta_liquidity, liquidity + delta_liquidity)
    IN  Mul(Mul(fee_tier_percentage, volume), liquidity_percentage)

\* Mutant of get_token_amounts_from_deposit_amounts: the liquidity is sized by
\* the token-y leg alone, and no leg is clamped.
get_token_amounts_sized_by_one_leg(price, price_lower_bound, price_upper_bound, price_usd_x, price_usd_y, target_amount) ==
    LET leg_y   == Sqrt(price) - Sqrt(price_lower_bound)
        leg_x   == Div(ONE, Sqrt(price)) - Div(ONE, Sqrt(price_upper_bound))
        delta_l == IF Mul(leg_y, price_usd_y) = 0 THEN 0
                   ELSE Div(target_amount, Mul(leg_y, price_usd_y))
    IN  <<Mul(delta_l, leg_x), Mul(delta_l, leg_y)>>

\* Mutant of get_token_amounts_from_deposit_amounts: the legs are returned as
\* solved, without the two clamps.
get_token_amounts_unclamped(price, price_lower_bound, price_upper_bound, price_usd_x, price_usd_y, target_amount) ==
    LET leg_y   == Sqrt(price) - Sqrt(price_lower_bound)
        leg_x   == Div(ONE, Sqrt(price)) - Div(ONE, Sqrt(price_upper_bound))
        delta_l == Div(target_amount, Mul(leg_y, price_usd_y) + Mul(leg_x, price_usd_x))
    IN  <<Mul(delta_l, leg_x), Mul(delta_l, leg_y)>>

\* Returns <<delta_x, delta_y>>.
get_token_amounts_from_deposit_amounts(price, price_lower_bound, price_upper_bound, price_usd_x, price_usd_y, target_amount) ==
    LET leg_y   == Sqrt(price) - Sqrt(price_lower_bound)
        leg_x   == Div(ONE, Sqrt(price)) - Div(ONE, Sqrt(price_upper_bound))
        delta_l == Div(target_amount, Mul(leg_y, price_usd_y) + Mul(leg_x, price_usd_x))
        y0      == Mul(delta_l, leg_y)
        y1      == IF Mul(y0, price_usd_y) < 0 THEN 0 ELSE y0
        delta_y == IF Mul(y1, price_usd_y) > target_amount
                   THEN Div(target_amount, price_usd_y) ELSE y1
        x0      == Mul(delta_l, leg_x)
        x1      == IF Mul(x0, price_usd_x) < 0 THEN 0 ELSE x0
        delta_x == IF Mul(x1, price_usd_x) > target_amount
                   THEN Div(target_amount, price_usd_x) ELSE x1
    IN  <<delta_x, delta_y>>

expand_decimals(number, exponent) == number * Pow10(exponent)

get_sqrt_price_x96(price, token0_decimal, token1_decimal) ==
    LET token0 == expand_decimals(price, token0_decimal)
        token1 == expand_decimals(ONE, token1_decimal)
    IN  Mul(Sqrt(Div(token0, token1)), Q96)

mul_div(a, b, multiplier) == (a * b) \div multiplier

get_liquidity_for_amount0(sqrt_ratio_ax96, sqrt_ratio_bx96, amount0) ==
    LET intermediate == mul_div(sqrt_ratio_bx96, sqrt_ratio_ax96, Q96)
    IN  mul_div(amount0, intermediate, sqrt_ratio_bx96 - sqrt_ratio_ax96)

get_liquidity_for_amount1(sqrt_ratio_ax96, sqrt_ratio_bx96, amount1) ==
    mul_div(amount1, Q96, sqrt_ratio_bx96 - sqrt_ratio_ax96)

get_liquidity_for_amounts(sqrt_ratio_x96, sqrt_ratio_ax96, sqrt_ratio_bx96, amount0, token0_decimals, amount1, token1_decimals) ==
    LET a0 == expand_decimals(amount0, token0_decimals)
        a1 == expand_decimals(amount1, token1_decimals)
    IN  IF sqrt_ratio_x96 <= sqrt_ratio_ax96
        THEN Min(get_liquidity_for_amount0(sqrt_ratio_x96, sqrt_ratio_bx96, a0),
                 get_liquidity_for_amount1(sqrt_ratio_ax96, sqrt_ratio_x96, a1))
        ELSE get_liquidity_for_amount1(sqrt_ratio_ax96, sqrt_ratio_bx96, a1)

\* ------------------------------------------------------ run parameters

\* KnownStrategyNames: which Strategy class cerebro runs.
Strategies == {"simple", "bonus1", "bonus2"}

TrendGated == {"bonus1", "bonus2"}

\* [lower%, upper%], symmetric (main.py rejects any other range): 10%, 20%, 30%.
LpRanges == { <<-(ONE \div 10), ONE \div 10>>,
              <<-(ONE \div 5), ONE \div 5>>,
              <<-(3 * (ONE \div 10)), 3 * (ONE \div 10)>> }

\* Pool parameters and the averaged gas units of the pool's events.
Pools == { [pool_fee_tier |-> 3000, token0_decimals |-> 0, token1_decimals |-> 0,
            gas_for_swap_event |-> 2, gas_for_mint_event |-> 4,
            gas_for_burn_event |-> 2] }

\* cerebro.broker.setcash(starting_cash): 1.00 USD.
StartingCash == ONE

\* Web3.fromWei(wei, "ether") divides by the number of wei in one ether; the
\* model's ether has 10^3 wei.
WeiPerEther == 10^3

FromWei(wei) == (wei * ONE) \div WeiPerEther

\* ------------------------------------------------------------- data feed

\* One cent: the grid of the token1 USD prices of the feed.
PriceStep == ONE \div 100

\* token1 USD prices a row of the general feed may carry: 1.00 and 1.01.
Prices == {ONE, ONE + PriceStep}

\* The rows of the daily feed.  Within one run only token1_price varies.
Rows == [token1_price : Prices, token0_price : {ONE}, tick : {0},
         liquidity : {100 * ONE}, volume : {100 * ONE}, wei : {5}]

\* ------------------------------------------------------------------ state

VARIABLES
    params,           \* constructor arguments of the strategy, and its class
    pc,               \* "created" before start(), then "running"; "aborted" once
                      \* an exception has left next()
    data,             \* the feed row at index 0
    cash,             \* broker cash
    holding_period,
    bar_executed,
    calculated_fees,
    last_hp_price,    \* trend-gated strategies only
    day,              \* len(self): rows processed by next()
    feed_kind,        \* which family of feeds the run is fed from
    changes,          \* days of a stepped feed whose price differed from the row before
    feed,             \* history: data_token1_price of each processed day
    fee_day,          \* history: the day each entry of calculated_fees was appended
    credits,          \* history: how many add_cash sums read each entry
    cash_log,         \* history: cash after each day
    start_cash,       \* history: cash right after start()
    call,             \* the function called from outside and its arguments
                      \* (SpecMath: of the library; SpecMain: of the driver)
    result            \* what the call returned or raised; the driver's progress

vars == <<params, pc, data, cash, holding_period, bar_executed, calculated_fees,
          last_hp_price, day, feed_kind, changes, feed, fee_day, credits, cash_log,
          start_cash, call, result>>

\* ------------------------------------------------------- strategies.py

\* self.last_hp_price: float = 1e20  (above every price of the feed)
LAST_HP_PRICE_INIT == 2000000000

\* Mutant of HoldingPeriod: the thresholds are excluded.
HoldingPeriodStrict(lp_range) ==
    IF Abs(lp_range[1]) < 12 * (ONE \div 100) THEN 1
    ELSE IF Abs(lp_range[1]) < 25 * (ONE \div 100) THEN 7
    ELSE 30

HoldingPeriod(lp_range) ==
    IF Abs(lp_range[1]) <= 12 * (ONE \div 100) THEN 1
    ELSE IF 12 * (ONE \div 100) < Abs(lp_range[1])
            /\ Abs(lp_range[1]) <= 25 * (ONE \div 100) THEN 7
    ELSE 30

\* No library call is being observed (the strategy runs).
NoCall == [fn |-> "none"]

Pending == [status |-> "pending"]

\* The strategy as constructed by cerebro for a pool of `pools`, an LP range
\* of `ranges`, a first feed row of `rows`, a starting cash of `cashes` and a
\* feed of `kinds`.
InitRunOf(pools, ranges, rows, cashes, kinds) ==
    /\ params \in [strategy : Strategies, lp_range : ranges, pool : pools]
    /\ pc = "created"
    /\ data \in rows
    /\ cash \in cashes
    /\ holding_period = HoldingPeriod(params.lp_range)
    /\ bar_executed = 0
    /\ calculated_fees = <<>>
    /\ last_hp_price = LAST_HP_PRICE_INIT
    /\ day = 0
    /\ feed_kind \in kinds
    /\ changes = 0
    /\ feed = <<>>
    /\ fee_day = <<>>
    /\ credits = <<>>
    /\ cash_log = <<>>
    /\ start_cash = cash

InitRun(ranges, rows, cashes, kinds) == InitRunOf(Pools, ranges, rows, cashes, kinds)

Init ==
    /\ InitRun(LpRanges, Rows, {StartingCash}, {"stepped", "rising"})
    /\ call = NoCall
    /\ result = Pending

\* Mutant of add_cash: the broker does not let cash fall below 0.
add_cash_floored(balance, amount) ==
    IF balance + amount < 0 THEN 0 ELSE balance + amount

\* self.broker.add_cash(amount): the amount is added as it is, whatever its
\* sign and whatever the balance.
add_cash(balance, amount) == balance + amount

\* gas units * gas price in ether * token1 USD price.
GasCost(gas_units, row) ==
    Mul(gas_units * FromWei(row.wei), row.token1_price)

\* Mutant of Start: the swap cost is deducted without rounding it to cents.
StartUnrounded ==
    /\ pc = "created"
    /\ pc' = "running"
    /\ cash' = add_cash(cash, -GasCost(params.pool.gas_for_swap_event, data))
    /\ start_cash' = cash'
    /\ UNCHANGED <<params, data, holding_period, bar_executed, calculated_fees,
                   last_hp_price, day, feed_kind, changes, feed, fee_day, credits,
                   cash_log, call, result>>

\* start(): the one-time swap cost.
Start ==
    /\ pc = "created"
    /\ pc' = "running"
    /\ LET initial_swap_cost == GasCost(params.pool.gas_for_swap_event, data)
       IN  cash' = add_cash(cash, -Round2(initial_swap_cost))
    /\ start_cash' = cash'
    /\ UNCHANGED <<params, data, holding_period, bar_executed, calculated_fees,
                   last_hp_price, day, feed_kind, changes, feed, fee_day, credits,
                   cash_log, call, result>>

\* p: the price assumption value of the day, from the row's tick and the
\* pool's decimals.
DayPrice(row) ==
    LET d0 == params.pool.token0_decimals
        d1 == params.pool.token1_decimals
        scale == IF d1 >= d0 THEN ONE * Pow10(d1 - d0) ELSE ONE \div Pow10(d0 - d1)
    IN  Div(ONE, Div(tick_to_price(row.tick), scale))

\* Mutant of DayPriceLower: the lower bound is taken on the upper side.
DayPriceLowerAbove(row) == Mul(DayPrice(row), ONE + Abs(params.lp_range[1]))

\* pl = p * (1 - abs(self.lp_range[0]))
DayPriceLower(row) == Mul(DayPrice(row), ONE - Abs(params.lp_range[1]))

\* pu = p * (1 + abs(self.lp_range[1]))
DayPriceUpper(row) == Mul(DayPrice(row), ONE + Abs(params.lp_range[2]))

\* The token amounts of a position worth target_amount on the day.
DayAmounts(row, target_amount) ==
    get_token_amounts_from_deposit_amounts(
        DayPrice(row), DayPriceLower(row), DayPriceUpper(row),
        row.token1_price, row.token0_price, target_amount)

\* The liquidity a position worth target_amount adds on the day (next(), from
\* "Price assumption value" to get_liquidity_for_amounts).
DayDeltaLiquidity(row, target_amount) ==
    LET d0 == params.pool.token0_decimals
        d1 == params.pool.token1_decimals
        amounts == DayAmounts(row, target_amount)
        amount0 == amounts[1]
        amount1 == amounts[2]
        sqrt_ratio_x96  == get_sqrt_price_x96(DayPrice(row), d0, d1)
        sqrt_ratio_ax96 == get_sqrt_price_x96(DayPriceLower(row), d0, d1)
        sqrt_ratio_bx96 == get_sqrt_price_x96(DayPriceUpper(row), d0, d1)
        delta_liquidity == get_liquidity_for_amounts(
                               sqrt_ratio_x96, sqrt_ratio_ax96, sqrt_ratio_bx96,
                               amount0, d1, amount1, d0)
    IN  delta_liquidity

\* Mutant of DayFee: the position is sized by the cash the run started with,
\* whatever the cash of the day.
DayFeeOfStartCash(row, target_amount) ==
    calculate_fee(DayDeltaLiquidity(row, start_cash), row.liquidity, row.volume,
                  params.pool.pool_fee_tier)

\* The day's fee estimate for a position worth target_amount.
DayFee(row, target_amount) ==
    calculate_fee(DayDeltaLiquidity(row, target_amount), row.liquidity, row.volume,
                  params.pool.pool_fee_tier)

\* Whether the day's call of calculate_fee raises.
DayFeeRaises(row, target_amount) ==
    calculate_fee_raises(DayDeltaLiquidity(row, target_amount), row.liquidity)

\* Mutants of GateClosed: the boundary taken as closed; the comparison reversed.
GateClosedAtEqual(price, ref) == price >= ref

GateClosedWhenFalling(price, ref) == price < ref

\* if self.data_token1_price[0] > self.last_hp_price: "ETH trend is up".
GateClosed(price, ref) == price > ref

\* Mutant of NextBar: a day the gate kept closed is not counted.
NextBarWhenStaked(bar, closed) == IF closed THEN bar ELSE bar + 1

\* self.bar_executed += 1: every day, whether or not the gate was closed.
NextBar(bar, closed) == bar + 1

\* Mutant of Settles: settles only after the holding period has passed.
SettlesLate(bar, hp) == bar > hp

\* if self.bar_executed == self.holding_period
Settles(bar, hp) == bar = hp

\* First index (1-based) of Python's s[-n:], n >= 1.
SliceStart(s, n) == IF Len(s) <= n THEN 1 ELSE Len(s) - n + 1

\* Mutant of CumulatedFees: the slice starts one entry late.
CumulatedFeesShortSlice(fees, bar, fee) ==
    IF bar = 1 THEN fee
    ELSE SumSeq(SubSeq(fees, SliceStart(fees, bar) + 1, Len(fees)))

\* Mutant of CumulatedFees: the special case takes the oldest entry of the
\* buffer.
CumulatedFeesFirstEntry(fees, bar, fee) ==
    IF bar = 1 THEN fees[1]
    ELSE SumSeq(SubSeq(fees, SliceStart(fees, bar), Len(fees)))

\* sum(self.calculated_fees[-self.bar_executed:]): the general rule.
SumLastEntries(fees, bar) == SumSeq(SubSeq(fees, SliceStart(fees, bar), Len(fees)))

\* cumulated_fees: the day's fee when bar_executed == 1, else
\* sum(self.calculated_fees[-self.bar_executed:]).
CumulatedFees(fees, bar, fee) ==
    IF bar = 1 THEN fee
    ELSE SumSeq(SubSeq(fees, SliceStart(fees, bar), Len(fees)))

\* The entries of calculated_fees that cumulated_fees reads.
ReadEntries(fees, bar) ==
    IF bar = 1 THEN {Len(fees)} ELSE SliceStart(fees, bar)..Len(fees)

\* Mutant of NewRefPrice: the reference is recorded only when the day staked.
NewRefPriceWhenStaked(closed, price, ref) == IF closed THEN ref ELSE price

\* self.last_hp_price = self.data_token1_price[0], at every settlement.
NewRefPrice(closed, price, ref) == price

\* Bonus2Strategy: mint_price + burn_price of the day (0.0 each when the gate
\* is closed).
MintBurnPrice(closed, row) ==
    IF closed THEN 0
    ELSE GasCost(params.pool.gas_for_mint_event, row)
         + GasCost(params.pool.gas_for_burn_event, row)

\* Mutant of Raise: the exception is swallowed and the run goes on to the
\* next row.
RaiseSwallowed(row) ==
    /\ pc' = "running"
    /\ data' = row
    /\ UNCHANGED <<params, cash, holding_period, bar_executed, calculated_fees,
                   last_hp_price, day, feed_kind, feed, fee_day, credits, cash_log,
                   start_cash, call, result>>

\* An exception leaves next() while `row` is the current row: nothing catches
\* it, cerebro.run() ends, and no statement after the failing call has run.
Raise(row) ==
    /\ pc' = "aborted"
    /\ data' = row
    /\ UNCHANGED <<params, cash, holding_period, bar_executed, calculated_fees,
                   last_hp_price, day, feed_kind, feed, fee_day, credits, cash_log,
                   start_cash, call, result>>

\* fee: Optional[float] = None, until a staking day assigns it.
NoFee == "None"

\* The feed delivers `row`; the histories record the day.
\* fees1: the buffer after the day; credited: whether add_cash was called.
Deliver(row, fees1, bar1, credited, cash1) ==
    /\ data' = row
    /\ day' = day + 1
    /\ feed' = Append(feed, row.token1_price)
    /\ cash_log' = Append(cash_log, cash1)
    /\ fee_day' = IF Len(fees1) > Len(calculated_fees)
                  THEN Append(fee_day, day + 1) ELSE fee_day
    /\ LET base == IF Len(fees1) > Len(calculated_fees)
                   THEN Append(credits, 0) ELSE credits
       IN  credits' = [i \in 1..Len(base) |->
                          IF credited /\ i \in ReadEntries(fees1, bar1)
                          THEN base[i] + 1 ELSE base[i]]

\* SimpleStrategy.next()
SimpleNext(row) ==
    /\ pc = "running"
    /\ params.strategy = "simple"
    /\ IF DayFeeRaises(row, cash) THEN Raise(row)
       ELSE
       /\ LET target_amount == cash
              fee   == DayFee(row, target_amount)
              fees1 == Append(calculated_fees, fee)
              bar1  == NextBar(bar_executed, FALSE)
          IN  /\ calculated_fees' = fees1
              /\ IF Settles(bar1, holding_period)
                 THEN /\ cash' = add_cash(cash, CumulatedFees(fees1, bar1, fee))
                      /\ bar_executed' = 0
                 ELSE /\ cash' = cash
                      /\ bar_executed' = bar1
              /\ Deliver(row, fees1, bar1, Settles(bar1, holding_period), cash')
       /\ UNCHANGED <<params, pc, holding_period, last_hp_price, feed_kind,
                      start_cash, call, result>>

\* Bonus1Strategy.next()
Bonus1Next(row) ==
    /\ pc = "running"
    /\ params.strategy = "bonus1"
    /\ IF ~GateClosed(row.token1_price, last_hp_price) /\ DayFeeRaises(row, cash)
       THEN Raise(row)
       ELSE
       /\ LET target_amount == cash
              closed == GateClosed(row.token1_price, last_hp_price)
              fee   == IF closed THEN NoFee ELSE DayFee(row, target_amount)
              fees1 == IF closed THEN calculated_fees
                                 ELSE Append(calculated_fees, fee)
              bar1  == NextBar(bar_executed, closed)
          IN  /\ calculated_fees' = fees1
              /\ IF Settles(bar1, holding_period)
                 THEN /\ cash' = IF closed THEN cash
                                 ELSE add_cash(cash, CumulatedFees(fees1, bar1, fee))
                      /\ last_hp_price' = NewRefPrice(closed, row.token1_price, last_hp_price)
                      /\ bar_executed' = 0
                 ELSE /\ cash' = cash
                      /\ last_hp_price' = last_hp_price
                      /\ bar_executed' = bar1
              /\ Deliver(row, fees1, bar1,
                         Settles(bar1, holding_period) /\ ~closed, cash')
       /\ UNCHANGED <<params, pc, holding_period, feed_kind, start_cash, call, result>>

\* Bonus2Strategy.next()
Bonus2Next(row) ==
    /\ pc = "running"
    /\ params.strategy = "bonus2"
    /\ IF ~GateClosed(row.token1_price, last_hp_price) /\ DayFeeRaises(row, cash)
       THEN Raise(row)
       ELSE
       /\ LET closed == GateClosed(row.token1_price, last_hp_price)
              mint_burn == MintBurnPrice(closed, row)
              target_amount == cash
              fee   == IF closed THEN NoFee ELSE DayFee(row, target_amount)
              fees1 == IF closed THEN calculated_fees
                                 ELSE Append(calculated_fees, fee)
              bar1  == NextBar(bar_executed, closed)
          IN  /\ calculated_fees' = fees1
              /\ IF Settles(bar1, holding_period)
                 THEN /\ cash' = IF closed THEN cash
                                 ELSE add_cash(cash, CumulatedFees(fees1, bar1, fee)
                                                     - mint_burn)
                      /\ last_hp_price' = NewRefPrice(closed, row.token1_price, last_hp_price)
                      /\ bar_executed' = 0
                 ELSE /\ cash' = cash
                      /\ last_hp_price' = last_hp_price
                      /\ bar_executed' = bar1
              /\ Deliver(row, fees1, bar1,
                         Settles(bar1, holding_period) /\ ~closed, cash')
       /\ UNCHANGED <<params, pc, holding_period, feed_kind, start_cash, call, result>>

\* ------------------------------------------------------------ the feeds

\* The feeds explored.  A "stepped" feed carries prices of Prices and changes
\* price on at most MaxChanges of its at most MaxDays days; a "rising" feed
\* adds one PriceStep every day, for at most RisingDays days; a "shared" feed
\* is one fixed series of PairDays days.
SteppedRows ==
    IF day >= MaxDays THEN {}
    ELSE { row \in { [data EXCEPT !.token1_price = p] : p \in Prices } :
             row.token1_price # data.token1_price => changes < MaxChanges }

RisingRows ==
    IF day >= RisingDays THEN {}
    ELSE { [data EXCEPT !.token1_price = data.token1_price + PriceStep] }

\* The price of day n of the data two runs of a pair both read: 1.01 on every
\* third day, 1.00 otherwise.
SharedPrice(n) == IF n % 3 = 0 THEN ONE + PriceStep ELSE ONE

SharedRows ==
    IF day >= PairDays THEN {}
    ELSE { [data EXCEPT !.token1_price = SharedPrice(day + 1)] }

NextRows ==
    IF feed_kind = "rising" THEN RisingRows
    ELSE IF feed_kind = "shared" THEN SharedRows
    ELSE SteppedRows

Changed(row) ==
    IF feed_kind = "stepped" /\ row.token1_price # data.token1_price THEN 1 ELSE 0

SimpleDay ==
    \E row \in NextRows : SimpleNext(row) /\ changes' = changes + Changed(row)

Bonus1Day ==
    \E row \in NextRows : Bonus1Next(row) /\ changes' = changes + Changed(row)

Bonus2Day ==
    \E row \in NextRows : Bonus2Next(row) /\ changes' = changes + Changed(row)

Next == Start \/ SimpleDay \/ Bonus1Day \/ Bonus2Day

Spec == Init /\ [][Next]_vars

\* ------------------------------------- runs at the holding-period thresholds

\* LP ranges at and just above the thresholds of the holding-period rule
\* (12%, 13%, 25%, 26%), and those of LpRanges.
BoundaryRanges ==
    LpRanges \cup { <<-(k * (ONE \div 100)), k * (ONE \div 100)>> : k \in {12, 13, 25, 26} }

InitRanges ==
    /\ InitRun(BoundaryRanges, Rows, {StartingCash}, {"rising"})
    /\ call = NoCall
    /\ result = Pending

SpecRanges == InitRanges /\ [][Next]_vars

\* ------------------------------------------- runs over a pool without liquidity

\* Rows of a pool that has neither liquidity nor volume.
EmptyPoolRows == [token1_price : Prices, token0_price : {ONE}, tick : {0},
                  liquidity : {0}, volume : {0}, wei : {5}]

\* Starting cash of 0.01 and 0.04 USD: the swap cost, and the swap cost plus
\* one mint and burn.
LowCash == { ONE \div 100, 4 * (ONE \div 100) }

InitEmptyPool ==
    /\ InitRun({ r \in LpRanges : HoldingPeriod(r) < 30 }, EmptyPoolRows, LowCash,
               {"stepped", "rising"})
    /\ call = NoCall
    /\ result = Pending

SpecEmptyPool == InitEmptyPool /\ [][Next]_vars

\* ------------------------------------- runs over a pool of an unlisted fee tier

\* A tier that is not in the table of get_tier_percentage.
UnlistedTier == 7

UnlistedTierPools == { [p EXCEPT !.pool_fee_tier = UnlistedTier] : p \in Pools }

InitUnlistedTier ==
    /\ InitRunOf(UnlistedTierPools, LpRanges, Rows, {StartingCash}, {"stepped", "rising"})
    /\ call = NoCall
    /\ result = Pending

SpecUnlistedTier == InitUnlistedTier /\ [][Next]_vars

\* ------------------------------------------------- runs with little cash

\* Starting cash of 0.00 and 0.04 USD: less than the swap cost, and less than
\* the swap cost plus two positions.
TightCash == { 0, 4 * (ONE \div 100) }

InitTightCash ==
    /\ InitRunOf(Pools, { r \in LpRanges : HoldingPeriod(r) < 30 }, Rows, TightCash,
                 {"stepped", "rising"})
    /\ call = NoCall
    /\ result = Pending

SpecTightCash == InitTightCash /\ [][Next]_vars

\* ------------------------------------- runs over other ticks and ranges

\* Symmetric LP ranges from 5 % to 99.99 %.
WideRanges ==
    { <<-r, r>> : r \in { 5 * (ONE \div 100), ONE \div 10, ONE \div 2,
                          9 * (ONE \div 10), ONE - 1 } }

\* Rows whose tick is not 0: the price assumption value differs from 1.
TickRows ==
    [token1_price : Prices, token0_price : {ONE}, tick : {-300, -50, 0, 50, 300},
     liquidity : {100 * ONE}, volume : {100 * ONE}, wei : {5}]

InitTickRanges ==
    /\ InitRun(WideRanges, TickRows, {StartingCash}, {"shared"})
    /\ call = NoCall
    /\ result = Pending

SpecTickRanges == InitTickRanges /\ [][Next]_vars

\* ------------------------------------------------ calls of the math library

Returned(v) == [status |-> "returned", value |-> v]

Raised(e) == [status |-> "raised", value |-> e]

\* Square-root ratios 0.8, 0.9, ..., 1.2 (times Q96).
SqrtRatios == { Mul(k * (ONE \div 10), Q96) : k \in 8..12 }

\* Token amounts 0, 0.5 and 1.
Amounts == { 0, ONE \div 2, ONE }

\* The bounds of the range in every order: ordered, equal and inverted.
LiquidityCalls ==
    [fn : {"get_liquidity_for_amounts"}, sqrt_ratio_x96 : SqrtRatios,
     sqrt_ratio_ax96 : SqrtRatios, sqrt_ratio_bx96 : SqrtRatios,
     amount0 : Amounts, amount1 : Amounts]

\* Pool prices 0.5, 1, 2, 4; token USD prices 0.5, 1, 2; targets -1, 0, 0.5
\* and 1 USD.
DepositPrices == { ONE \div 2, ONE, 2 * ONE, 4 * ONE }

UsdPrices == { ONE \div 2, ONE, 2 * ONE }

Targets == { -ONE, 0, ONE \div 2, ONE }

\* The range is ordered, with the price below, inside or above it, or it is
\* the single point of the price; or it is inverted or a single point away
\* from the price, and then the two USD prices are not both 0.5 (the quotients
\* of those calls would leave 32 bits).
DepositCalls ==
    { c \in [fn : {"get_token_amounts_from_deposit_amounts"}, price : DepositPrices,
             price_lower_bound : DepositPrices, price_upper_bound : DepositPrices,
             price_usd_x : UsdPrices, price_usd_y : UsdPrices, target_amount : Targets] :
        \/ c.price_lower_bound < c.price_upper_bound
        \/ c.price_lower_bound = c.price /\ c.price_upper_bound = c.price
        \/ c.price_usd_x + c.price_usd_y > ONE }

\* Fee tiers (7 is not a tier of the table), liquidities and volumes.
Tiers == { 100, 500, 3000, 10000, 7 }

Liquidities == { 0, ONE, 10 * ONE, 100 * ONE }

DeltaLiquidities == { 0, ONE, 5 * ONE, 20 * ONE }

Volumes == { 0, 10 * ONE, 100 * ONE, 1000 * ONE }

FeeCalls ==
    [fn : {"calculate_fee"}, delta_liquidity : DeltaLiquidities, liquidity : Liquidities,
     volume : Volumes, pool_fee_tier : Tiers]

\* Tiers handed to get_tier_percentage: the table's, their neighbours, 0 and
\* a negative number.
TierInputs == Tiers \cup { -1, 0, 99, 101, 499, 501, 2999, 3001, 9999, 10001 }

TierCalls == [fn : {"get_tier_percentage"}, tier : TierInputs]

\* Ticks handed to tick_to_price: the multiples of TickStride up to
\* MaxTickSteps of them either way.
TickStride == 50

TickInputs == { k * TickStride : k \in -MaxTickSteps..MaxTickSteps }

TickCalls == [fn : {"tick_to_price"}, tick : TickInputs]

MathCalls == LiquidityCalls \cup DepositCalls \cup FeeCalls \cup TierCalls \cup TickCalls

\* mul_div divides by sqrt_ratio_bx96 - sqrt_ratio_ax96 of the estimate it
\* serves: ZeroDivisionError when the two ratios are equal.
get_liquidity_for_amounts_raises(sqrt_ratio_x96, sqrt_ratio_ax96, sqrt_ratio_bx96) ==
    IF sqrt_ratio_x96 <= sqrt_ratio_ax96
    THEN sqrt_ratio_bx96 = sqrt_ratio_x96 \/ sqrt_ratio_x96 = sqrt_ratio_ax96
    ELSE sqrt_ratio_bx96 = sqrt_ratio_ax96

\* delta_l divides target_amount by the USD value of one unit of liquidity:
\* ZeroDivisionError when that is 0 (prices are positive here).
get_token_amounts_from_deposit_amounts_raises(price, price_lower_bound, price_upper_bound, price_usd_x, price_usd_y) ==
    LET leg_y == Sqrt(price) - Sqrt(price_lower_bound)
        leg_x == Div(ONE, Sqrt(price)) - Div(ONE, Sqrt(price_upper_bound))
    IN  Mul(leg_y, price_usd_y) + Mul(leg_x, price_usd_x) = 0

InitMath ==
    /\ InitRun({ r \in LpRanges : HoldingPeriod(r) = 1 }, { r \in Rows : r.token1_price = ONE },
               {StartingCash}, {"stepped"})
    /\ params.strategy = "simple"
    /\ call \in MathCalls
    /\ result = Pending

Idle ==
    UNCHANGED <<params, pc, data, cash, holding_period, bar_executed, calculated_fees,
                last_hp_price, day, feed_kind, changes, feed, fee_day, credits,
                cash_log, start_cash, call>>

CallLiquidityForAmounts ==
    /\ call.fn = "get_liquidity_for_amounts"
    /\ result = Pending
    /\ result' = IF get_liquidity_for_amounts_raises(
                        call.sqrt_ratio_x96, call.sqrt_ratio_ax96, call.sqrt_ratio_bx96)
                  THEN Raised("ZeroDivisionError")
                  ELSE Returned(get_liquidity_for_amounts(
                           call.sqrt_ratio_x96, call.sqrt_ratio_ax96, call.sqrt_ratio_bx96,
                           call.amount0, 0, call.amount1, 0))
    /\ Idle

CallTokenAmounts ==
    /\ call.fn = "get_token_amounts_from_deposit_amounts"
    /\ result = Pending
    /\ result' = IF get_token_amounts_from_deposit_amounts_raises(
                        call.price, call.price_lower_bound, call.price_upper_bound,
                        call.price_usd_x, call.price_usd_y)
                  THEN Raised("ZeroDivisionError")
                  ELSE Returned(get_token_amounts_from_deposit_amounts(
                           call.price, call.price_lower_bound, call.price_upper_bound,
                           call.price_usd_x, call.price_usd_y, call.target_amount))
    /\ Idle

CallCalculateFee ==
    /\ call.fn = "calculate_fee"
    /\ result = Pending
    /\ result' = IF calculate_fee_raises(call.delta_liquidity, call.liquidity)
                  THEN Raised("ZeroDivisionError")
                  ELSE Returned(calculate_fee(call.delta_liquidity, call.liquidity,
                                              call.volume, call.pool_fee_tier))
    /\ Idle

CallTierPercentage ==
    /\ call.fn = "get_tier_percentage"
    /\ result = Pending
    /\ result' = Returned(get_tier_percentage(call.tier))
    /\ Idle

CallTickToPrice ==
    /\ call.fn = "tick_to_price"
    /\ result = Pending
    /\ result' = Returned(tick_to_price(call.tick))
    /\ Idle

NextMath ==
    \/ CallTickToPrice
    \/ CallLiquidityForAmounts
    \/ CallTokenAmounts
    \/ CallCalculateFee
    \/ CallTierPercentage

SpecMath == InitMath /\ [][NextMath]_vars

\* ------------------------------------------- main.py, backtesting.py: the driver

\* Strategy identifiers handed in: the known ones, one that is not known and
\* a known one in another case.
NameInputs == Strategies \cup { "hodl", "Simple" }

\* Longest list of strategy identifiers handed in.
MaxNames == 2

NameLists == UNION { [1..n -> NameInputs] : n \in 0..MaxNames }

\* pool_pairs: no pair, one pair that splits in two at "-", one that does not.
PoolPairInputs == { <<>>, <<"eth-usdc">>, <<"ethusdc">> }

\* lp_range: None (the empty tuple here) or two percentages of -10 %, 10 %, 20 %.
RangeInputs ==
    { <<>> } \cup { <<l, u>> : l \in { -(ONE \div 10), ONE \div 10, ONE \div 5 },
                              u \in { -(ONE \div 10), ONE \div 10, ONE \div 5 } }

\* Calls of backtest_uniswap_v3 (with_all_ranges is not set in any of them).
MainCalls ==
    [fn : {"backtest_uniswap_v3"}, pool_pairs : PoolPairInputs, lp_range : RangeInputs,
     with_all_ranges : {FALSE}, strategy_names : NameLists]

\* BacktestUniswapV3(...).backtest_strategies() called on its own, over
\* gathered data.
BacktestCalls ==
    [fn : {"backtest_strategies"}, lp_range : { <<-(ONE \div 10), ONE \div 10>> },
     strategy_names : NameLists]

\* Mutant of KnownStrategyName: the identifier is compared without its case.
KnownStrategyNameAnyCase(name) == name \in Strategies \cup { "Simple" }

\* strategy_name in KnownStrategyNames (MyEnumMeta.__contains__: one of the
\* enum's values, compared as written).
KnownStrategyName(name) == name \in Strategies

\* str.lower()
Lower(name) == IF name = "Simple" THEN "simple" ELSE name

\* len(pool_pair.split("-")) == 2
Parseable(pool_pair) == pool_pair = "eth-usdc"

\* Mutant of AsymmetricRange: only a range that is wider below than above is
\* rejected.
AsymmetricRangeWiderBelow(lp_range) == Abs(lp_range[1]) > Abs(lp_range[2])

\* abs(lp_range[0]) != abs(lp_range[1])
AsymmetricRange(lp_range) == Abs(lp_range[1]) # Abs(lp_range[2])

\* The driver's progress.  queue: the strategy identifiers still to be run;
\* pools: the parsed pool pairs; u3s: the pools whose data has been gathered;
\* results: the identifiers whose statistics have been stored.
Progress(status, value, queue, pools, u3s, results) ==
    [status |-> status, value |-> value, queue |-> queue, pools |-> pools,
     u3s |-> u3s, results |-> results]

\* raise Exception(message): nothing catches it.
DriverRaised(message) ==
    IF result = Pending THEN Progress("raised", message, <<>>, 0, 0, <<>>)
    ELSE [result EXCEPT !.status = "raised", !.value = message]

\* No strategy has been constructed.
NoRun ==
    /\ params = [strategy |-> "none", lp_range |-> <<>>, pool |-> CHOOSE p \in Pools : TRUE]
    /\ pc = "idle"
    /\ data \in { r \in Rows : r.token1_price = ONE }
    /\ cash = 0
    /\ holding_period = 0
    /\ bar_executed = 0
    /\ calculated_fees = <<>>
    /\ last_hp_price = LAST_HP_PRICE_INIT
    /\ day = 0
    /\ feed_kind = "rising"
    /\ changes = 0
    /\ feed = <<>>
    /\ fee_day = <<>>
    /\ credits = <<>>
    /\ cash_log = <<>>
    /\ start_cash = 0

InitMain ==
    /\ call \in MainCalls \cup BacktestCalls
    /\ result = Pending
    /\ NoRun

\* backtest_uniswap_v3, "Sanity check of input parameters" down to the end
\* day: pool pairs, LP range, strategy identifiers, in this order.
SanityCheck ==
    /\ call.fn = "backtest_uniswap_v3"
    /\ result = Pending
    /\ LET pool_token_ticker_pairs == SelectSeq(call.pool_pairs, Parseable)
           known == SelectSeq(call.strategy_names, KnownStrategyName)
           processed_strategy_names == [i \in 1..Len(known) |-> Lower(known[i])]
       IN  result' =
             IF Len(call.pool_pairs) = 0
             THEN DriverRaised("At least one pool with token ticker pair is required.")
             ELSE IF call.lp_range # <<>> /\ AsymmetricRange(call.lp_range)
             THEN DriverRaised("LP range has to be the same")
             ELSE IF Len(call.strategy_names) = 0 \/ Len(processed_strategy_names) = 0
             THEN DriverRaised("No strategy name was provided.")
             ELSE Progress("checked", "", processed_strategy_names,
                           Len(pool_token_ticker_pairs), 0, <<>>)
    /\ Idle

\* backtest_uniswap_v3, "Gathering Uniswap v3 data": one UniswapV3 per parsed
\* pool pair.
GatherData ==
    /\ call.fn = "backtest_uniswap_v3"
    /\ result.status = "checked"
    /\ result' = [result EXCEPT !.status = "gathered", !.u3s = result.pools]
    /\ Idle

\* backtest_uniswap_v3, "Starting backtesting": without an LP range and
\* without with_all_ranges the else branch raises.
BadRangeCombination ==
    /\ call.fn = "backtest_uniswap_v3"
    /\ result.status = "gathered"
    /\ call.lp_range = <<>>
    /\ ~call.with_all_ranges
    /\ result' = DriverRaised("Bad LP range parameter combination")
    /\ Idle

\* BacktestUniswapV3.__init__ over the data of one pool.
ConstructBacktest ==
    /\ call.fn = "backtest_strategies"
    /\ result = Pending
    /\ result' = Progress("backtesting", "", call.strategy_names, 1, 1, <<>>)
    /\ Idle

\* backtest_strategies takes the next identifier and _backtest builds a fresh
\* cerebro, strategy, feed and broker for it, or raises for an identifier it
\* does not know.
BeginRun ==
    /\ result.status \in {"gathered", "backtesting"}
    /\ call.lp_range # <<>>
    /\ result.u3s > 0
    /\ result.queue # <<>>
    /\ pc \in {"idle", "finished"}
    /\ LET strategy_name == Head(result.queue)
       IN  IF strategy_name \in Strategies
           THEN /\ result' = [result EXCEPT !.status = "backtesting",
                                            !.queue = Tail(result.queue)]
                /\ params' = [params EXCEPT !.strategy = strategy_name,
                                            !.lp_range = call.lp_range]
                /\ pc' = "created"
                /\ data' = [data EXCEPT !.token1_price = ONE]
                /\ cash' = StartingCash
                /\ holding_period' = HoldingPeriod(call.lp_range)
                /\ bar_executed' = 0
                /\ calculated_fees' = <<>>
                /\ last_hp_price' = LAST_HP_PRICE_INIT
                /\ day' = 0
                /\ feed' = <<>>
                /\ fee_day' = <<>>
                /\ credits' = <<>>
                /\ cash_log' = <<>>
                /\ start_cash' = StartingCash
                /\ UNCHANGED <<feed_kind, changes, call>>
           ELSE /\ result' = DriverRaised("Unknown strategy")
                /\ Idle

\* cerebro.run() returns after the last row; the statistics of the run are
\* stored under the strategy's identifier.
EndRun ==
    /\ result.status = "backtesting"
    /\ pc = "running"
    /\ NextRows = {}
    /\ pc' = "finished"
    /\ result' = [result EXCEPT !.results = Append(result.results, params.strategy)]
    /\ UNCHANGED <<params, data, cash, holding_period, bar_executed, calculated_fees,
                   last_hp_price, day, feed_kind, changes, feed, fee_day, credits,
                   cash_log, start_cash, call>>

\* Every pool and every identifier has been served: the results are returned.
ReturnResults ==
    /\ result.status \in {"gathered", "backtesting"}
    /\ call.lp_range # <<>>
    /\ result.u3s = 0 \/ result.queue = <<>>
    /\ pc \in {"idle", "finished"}
    /\ result' = [result EXCEPT !.status = "returned"]
    /\ Idle

NextMain ==
    \/ SanityCheck
    \/ GatherData
    \/ BadRangeCombination
    \/ ConstructBacktest
    \/ BeginRun
    \/ EndRun
    \/ ReturnResults
    \/ Start
    \/ SimpleDay
    \/ Bonus1Day
    \/ Bonus2Day

SpecMain == InitMain /\ [][NextMain]_vars

\* ------------------------------------------ two runs over the same data

\* The run in the state variables, as one record.
ActiveRun ==
    [params |-> params, pc |-> pc, data |-> data, cash |-> cash,
     holding_period |-> holding_period, bar_executed |-> bar_executed,
     calculated_fees |-> calculated_fees, last_hp_price |-> last_hp_price,
     day |-> day, feed |-> feed, fee_day |-> fee_day, credits |-> credits,
     cash_log |-> cash_log, start_cash |-> start_cash]

\* A run as _backtest builds it: its own cerebro, broker and strategy.
NewRun(p, row) ==
    [params |-> p, pc |-> "created", data |-> row, cash |-> StartingCash,
     holding_period |-> HoldingPeriod(p.lp_range), bar_executed |-> 0,
     calculated_fees |-> <<>>, last_hp_price |-> LAST_HP_PRICE_INIT,
     day |-> 0, feed |-> <<>>, fee_day |-> <<>>, credits |-> <<>>,
     cash_log |-> <<>>, start_cash |-> StartingCash]

\* LP ranges of the paired runs: holding periods of 1 and 7 days.
PairRanges == { r \in LpRanges : HoldingPeriod(r) < 30 }

\* Two runs over the same data: one in the state variables, the other in
\* `result` until its turn comes.
InitPair ==
    /\ InitRunOf(Pools, PairRanges, { r \in Rows : r.token1_price = ONE },
                 {StartingCash}, {"shared"})
    /\ call = [fn |-> "pair"]
    /\ result \in { NewRun(p, data) :
                      p \in [strategy : Strategies, lp_range : PairRanges, pool : Pools] }

\* Mutant of Switch: the two runs work on one broker.
SwitchSharingBroker ==
    /\ call.fn = "pair"
    /\ result' = ActiveRun
    /\ params' = result.params
    /\ pc' = result.pc
    /\ data' = result.data
    /\ cash' = cash
    /\ holding_period' = result.holding_period
    /\ bar_executed' = result.bar_executed
    /\ calculated_fees' = result.calculated_fees
    /\ last_hp_price' = result.last_hp_price
    /\ day' = result.day
    /\ feed' = result.feed
    /\ fee_day' = result.fee_day
    /\ credits' = result.credits
    /\ cash_log' = result.cash_log
    /\ start_cash' = result.start_cash
    /\ UNCHANGED <<feed_kind, changes, call>>

\* The other run takes the next turn.  Each run keeps its own broker, strategy
\* attributes and position in the feed.
Switch ==
    /\ call.fn = "pair"
    /\ result' = ActiveRun
    /\ params' = result.params
    /\ pc' = result.pc
    /\ data' = result.data
    /\ cash' = result.cash
    /\ holding_period' = result.holding_period
    /\ bar_executed' = result.bar_executed
    /\ calculated_fees' = result.calculated_fees
    /\ last_hp_price' = result.last_hp_price
    /\ day' = result.day
    /\ feed' = result.feed
    /\ fee_day' = result.fee_day
    /\ credits' = result.credits
    /\ cash_log' = result.cash_log
    /\ start_cash' = result.start_cash
    /\ UNCHANGED <<feed_kind, changes, call>>

NextPair == Start \/ SimpleDay \/ Bonus1Day \/ Bonus2Day \/ Switch

SpecPair == InitPair /\ [][NextPair]_vars

\* --------------------------------------------------- cls/gas_estimator.py

\* Largest transaction count handed to the constructor.
MaxTransactionCount == 32

\* An optional integer argument: None (the empty tuple here) or <<n>>.
CountArgs == { <<>> } \cup { <<n>> : n \in -1..MaxTransactionCount }

\* GasEstimator(address, abi, max_days=None, min_transaction_count,
\* max_transaction_count)
GasEstimatorCalls ==
    [fn : {"GasEstimator"}, max_days : { <<>> }, min_transaction_count : CountArgs,
     max_transaction_count : CountArgs]

\* `arg if arg else default`: None and 0 are both false.
OrDefault(arg, default) == IF arg = <<>> \/ arg = <<0>> THEN default ELSE arg[1]

\* Mutant of InvalidCounts: equal counts are accepted.
InvalidCountsWhenGreater(min_count, max_count) == min_count > max_count

\* if self._min_transaction_count >= self._max_transaction_count
InvalidCounts(min_count, max_count) == min_count >= max_count

InitGas ==
    /\ call \in GasEstimatorCalls
    /\ result = Pending
    /\ NoRun

\* GasEstimator.__init__.  log_queries counts the calls of _get_logs made on
\* behalf of the object: the constructor makes none.
ConstructGasEstimator ==
    /\ call.fn = "GasEstimator"
    /\ result = Pending
    /\ LET max_days == OrDefault(call.max_days, 90)
           min_transaction_count == OrDefault(call.min_transaction_count, 4)
           max_transaction_count == OrDefault(call.max_transaction_count, 30)
       IN  result' =
             IF InvalidCounts(min_transaction_count, max_transaction_count)
             THEN [status |-> "raised", value |-> "Exception", log_queries |-> 0]
             ELSE [status |-> "constructed", value |-> "",
                   _max_days |-> max_days,
                   _min_transaction_count |-> min_transaction_count,
                   _max_transaction_count |-> max_transaction_count,
                   _known_gas_amounts |-> <<>>,
                   log_queries |-> 0]
    /\ Idle

NextGas == ConstructGasEstimator

SpecGas == InitGas /\ [][NextGas]_vars

\* ------------------------------------------ GasEstimator.get_average_gas

\* self._average_number_of_eth_blocks_per_day
BlocksPerDay == 6400

\* self._week_in_days
WeekInDays == 7

\* self._max_halving_attempts
MaxHalvingAttempts == 20

\* Largest number of logs one query returns.
MaxLogs == 6

\* The number of the last block when the call is made.
LastBlocks == { 15000000 }

\* gasUsed of a transaction receipt.
GasValues == { 21000, 21001 }

\* The event names handed to get_average_gas (none has an underscore, so the
\* name is used as it is).
EventNames == { "Swap", "Swapped" }

\* GasEstimator(address, abi, max_days, min_transaction_count,
\* max_transaction_count).get_average_gas(event_name): max_days as in
\* uniswap_v3.py (1, 7) and 8; the default counts, a negative
\* minimum, and small counts.
AverageGasCalls ==
    [fn : {"GasEstimator"}, max_days : { <<1>>, <<7>>, <<8>> },
     min_transaction_count : { <<>>, <<-1>>, <<2>> },
     max_transaction_count : { <<>>, <<3>>, <<5>> },
     event_name : EventNames]

\* int(x / 2): the quotient is rounded toward zero.
IntHalf(x) == IF x >= 0 THEN x \div 2 ELSE -((-x) \div 2)

\* Mutant of NextAttempt: a failed query is not counted.
NextAttemptUncounted(attempt) == attempt

\* attempt += 1
NextAttempt(attempt) == attempt + 1

\* len(logs[: max_count]) for a list of length len.
SliceLen(len, max_count) ==
    IF max_count >= 0 THEN Min(len, max_count)
    ELSE IF len + max_count > 0 THEN len + max_count ELSE 0

InitAverageGas ==
    /\ call \in AverageGasCalls
    /\ result = Pending
    /\ NoRun

\* get_average_gas up to its query loop: the event is not in
\* _known_gas_amounts, the last block is read, and the first window is one
\* day of blocks (one hour for "Swapped").
EnterGetAverageGas ==
    /\ result.status = "constructed"
    /\ \A k \in 1..Len(result._known_gas_amounts) :
           result._known_gas_amounts[k][1] # call.event_name
    /\ \E end_block \in LastBlocks :
         result' = [status |-> "querying", value |-> "",
                    _max_days |-> result._max_days,
                    _min_transaction_count |-> result._min_transaction_count,
                    _max_transaction_count |-> result._max_transaction_count,
                    _known_gas_amounts |-> result._known_gas_amounts,
                    log_queries |-> result.log_queries,
                    end_block |-> end_block,
                    start_block |-> IF call.event_name = "Swapped"
                                    THEN end_block - BlocksPerDay \div 24
                                    ELSE end_block - BlocksPerDay,
                    queried_from |-> end_block,
                    n_days |-> 1,
                    attempt |-> 0,
                    logs |-> 0,
                    calls |-> 1]
    /\ Idle

\* One pass of the loop whose _get_logs raises: start_block is set to
\* int((end_block - start_block) / 2), and the failure is counted or, after
\* _max_halving_attempts counted failures, fatal.  queried_from is the
\* from_block of the query just made.
QueryFails ==
    /\ result.status = "querying"
    /\ LET start_block == IntHalf(result.end_block - result.start_block)
           queried == [result EXCEPT !.start_block = start_block,
                                     !.queried_from = result.start_block,
                                     !.log_queries = @ + 1]
       IN  result' =
             IF result.attempt < MaxHalvingAttempts
             THEN [queried EXCEPT !.attempt = NextAttempt(@)]
             ELSE [queried EXCEPT !.status = "raised",
                                  !.value = "Can not estimate gas."]
    /\ Idle

\* One pass of the loop whose _get_logs returns n logs: enough of them leave
\* the loop; otherwise the call raises when n_days has reached _max_days, or
\* looks a week further back.  logs holds the length of the list the loop is
\* left with (a list that does not leave the loop is not read again).
QueryReturns ==
    /\ result.status = "querying"
    /\ \E n \in 0..MaxLogs :
         LET queried == [result EXCEPT !.queried_from = result.start_block,
                                       !.log_queries = @ + 1]
         IN  result' =
               IF n > result._min_transaction_count
               THEN [queried EXCEPT !.status = "averaging", !.logs = n]
               ELSE IF result.n_days >= result._max_days
               THEN [queried EXCEPT !.status = "raised",
                                    !.value = "Can not find any event."]
               ELSE [queried EXCEPT
                       !.n_days = @ + WeekInDays,
                       !.start_block = result.end_block
                                       - BlocksPerDay * (result.n_days + WeekInDays)]
    /\ Idle

\* After the loop: the logs are capped at _max_transaction_count, the gas of
\* their receipts is fetched and averaged, and the average is remembered.
\* The division raises when no receipt is left.
ComputeAverage ==
    /\ result.status = "averaging"
    /\ LET n == IF result.logs > result._max_transaction_count
                THEN SliceLen(result.logs, result._max_transaction_count)
                ELSE result.logs
       IN  \E gas_used \in [1..n -> GasValues] :
             result' =
               IF n = 0
               THEN [result EXCEPT !.status = "raised", !.value = "ZeroDivisionError",
                                   !.logs = n]
               ELSE LET average_gas == SumSeq(gas_used) \div n
                    IN  [result EXCEPT
                           !.status = "returned", !.value = average_gas, !.logs = n,
                           !._known_gas_amounts = <<<<call.event_name, average_gas>>>>]
    /\ Idle

\* A further call for the same event: the remembered average is returned and
\* nothing is queried.
GetKnownAverageGas ==
    /\ result.status = "returned"
    /\ result.calls = 1
    /\ \E k \in 1..Len(result._known_gas_amounts) :
         /\ result._known_gas_amounts[k][1] = call.event_name
         /\ result' = [result EXCEPT !.calls = 2,
                                     !.value = result._known_gas_amounts[k][2]]
    /\ Idle

NextAverageGas ==
    \/ ConstructGasEstimator
    \/ EnterGetAverageGas
    \/ QueryFails
    \/ QueryReturns
    \/ ComputeAverage
    \/ GetKnownAverageGas

SpecAverageGas == InitAverageGas /\ [][NextAverageGas]_vars

\* _get_logs and the receipts come back (with a result or an exception), so
\* every step of a call that has not ended is eventually taken.
SpecAverageGasFair == SpecAverageGas /\ WF_vars(NextAverageGas)

\* ------------------------------------------------- history helpers

\* Cash after day n (n = 0: right after start()).
CashAfter(n) == IF n = 0 THEN start_cash ELSE cash_log[n]

\* The last settlement day so far (0 when there was none): settlements fall on
\* the multiples of the holding period.
LastSettlementDay == holding_period * (day \div holding_period)

\* Whether calculated_fees got an entry on day n.
StakedOn(n) == \E i \in 1..Len(fee_day) : fee_day[i] = n

RECURSIVE WindowFeeSum(_, _, _)
\* Sum of the entries 1..i of calculated_fees appended on the days lo+1..hi.
WindowFeeSum(i, lo, hi) ==
    IF i = 0 THEN 0
    ELSE (IF lo < fee_day[i] /\ fee_day[i] <= hi THEN calculated_fees[i] ELSE 0)
         + WindowFeeSum(i - 1, lo, hi)

\* The token1 price rose strictly from each processed day to the next.
RisingSoFar == \A n \in 1..(day - 1) : feed[n] < feed[n + 1]

\* The feed row of day n (within a run only token1_price varies).
RowAt(n) == [data EXCEPT !.token1_price = feed[n]]

RECURSIVE SumOver(_, _)
\* Sum of the entries of the sequence f at the indices of S.
SumOver(f, S) ==
    IF S = {} THEN 0
    ELSE LET i == CHOOSE j \in S : TRUE IN f[i] + SumOver(f, S \ {i})

\* ----------------------------------------------------------------- claims

\* C1: under the trend-gated policies no entry of the accrual buffer is read by
\* the credited sum of more than one settlement.
C1_NoEntryCreditedTwice ==
    params.strategy \in TrendGated =>
        \A i \in 1..Len(credits) : credits[i] <= 1

\* C2: under the trend-gated policies every fee appended on a staking day has
\* been credited once the settlement ending its window has run.
C2_EveryAccruedFeeCredited ==
    params.strategy \in TrendGated =>
        \A i \in 1..Len(fee_day) :
            fee_day[i] <= LastSettlementDay => credits[i] >= 1

\* C3: under the Simple policy every day appends exactly one fee, and cash after
\* day n is the cash after start() plus the fees of the days 1..hp*floor(n/hp),
\* each credited exactly once and nothing deducted.
C3_SimpleCashIsSetupPlusSettledFees ==
    (params.strategy = "simple" /\ pc = "running") =>
        /\ Len(calculated_fees) = day
        /\ \A i \in 1..day : fee_day[i] = i
        /\ \A i \in 1..day :
               credits[i] = IF i <= LastSettlementDay THEN 1 ELSE 0
        /\ cash = start_cash
                  + SumSeq(SubSeq(calculated_fees, 1, LastSettlementDay))
        /\ CashAfter(day) = cash

C3_Witness ==
    /\ params.strategy = "simple"
    /\ holding_period = 30
    /\ day = 2 * holding_period + 1
    /\ cash > start_cash

\* C4: the accrual buffer never holds more than holding-period entries and is
\* empty after each settlement.
C4_BufferWithinHoldingPeriod ==
    /\ Len(calculated_fees) <= holding_period
    /\ (day > 0 /\ bar_executed = 0) => calculated_fees = <<>>

\* C5: bar_executed is incremented by one per day and reset to 0 on the day it
\* reaches the holding period, so between days it lies in 0..holding_period-1.
C5_DayCounterCycles ==
    [][ /\ bar_executed \in 0..(holding_period - 1)
        /\ bar_executed' \in 0..(holding_period - 1)
        /\ day' = day + 1 =>
             bar_executed' = IF bar_executed + 1 = holding_period
                             THEN 0 ELSE bar_executed + 1
        /\ day' = day => bar_executed' = bar_executed ]_vars

C5_Witness ==
    /\ holding_period = 30
    /\ day = 59
    /\ bar_executed = holding_period - 1

\* C6: under Bonus2, at every settlement: if the window had a staking day the
\* credited amount is the window's fee sum minus (mint + burn gas units) * gas
\* price * token1 price; if it had none, nothing is deducted.
C6_WindowCreditLessMintBurn ==
    (params.strategy = "bonus2" /\ LastSettlementDay > 0) =>
        LET n        == LastSettlementDay
            credited == CashAfter(n) - CashAfter(n - 1)
            staked   == \E d \in (n - holding_period + 1)..n : StakedOn(d)
            cost     == GasCost(params.pool.gas_for_mint_event, RowAt(n))
                        + GasCost(params.pool.gas_for_burn_event, RowAt(n))
        IN  IF staked
            THEN credited = WindowFeeSum(Len(fee_day), n - holding_period, n) - cost
            ELSE credited = 0

\* C7 as stated: under a strictly rising token1 price a trend-gated run never
\* appends a fee and its cash stays at the value right after start().
C7_RisingNeverAccrues ==
    (params.strategy \in TrendGated /\ pc = "running" /\ RisingSoFar) =>
        /\ calculated_fees = <<>>
        /\ \A n \in 1..day : CashAfter(n) = start_cash

\* C7 amended: under a strictly rising token1 price a trend-gated run stakes on
\* each day of the first window only (the reference is still 1e20), the first
\* settlement credits that window (less mint + burn under Bonus2), and from
\* then on no day appends a fee or deducts a cost: cash stays at its value
\* after day holding_period.
C7_RisingFlatAfterFirstWindow ==
    (params.strategy \in TrendGated /\ pc = "running" /\ RisingSoFar) =>
        /\ Len(calculated_fees) = Min(day, holding_period)
        /\ \A i \in 1..Len(fee_day) : fee_day[i] = i
        /\ \A n \in 0..day : n < holding_period => CashAfter(n) = start_cash
        /\ day >= holding_period =>
             CashAfter(holding_period) =
                 start_cash + SumSeq(calculated_fees)
                 - (IF params.strategy = "bonus2"
                    THEN GasCost(params.pool.gas_for_mint_event, RowAt(holding_period))
                         + GasCost(params.pool.gas_for_burn_event, RowAt(holding_period))
                    ELSE 0)
        /\ \A n \in 1..day :
               n >= holding_period => CashAfter(n) = CashAfter(holding_period)

C7_Witness ==
    /\ params.strategy \in TrendGated
    /\ holding_period = 30
    /\ day = 2 * holding_period + 1
    /\ RisingSoFar

\* C8: on every day of a trend-gated run the position stakes (a fee is
\* appended) if and only if the day's token1 price is not greater than the
\* reference price recorded at the last settlement.
C8_StakesIffPriceNotAboveReference ==
    [][ (params.strategy \in TrendGated /\ day' = day + 1) =>
            /\ Len(calculated_fees') \in {Len(calculated_fees), Len(calculated_fees) + 1}
            /\ (Len(calculated_fees') = Len(calculated_fees) + 1)
                   <=> (data'.token1_price <= last_hp_price) ]_vars

\* A staking day whose price equals the reference recorded at a settlement.
C8_Witness ==
    /\ params.strategy \in TrendGated
    /\ day > holding_period
    /\ bar_executed # 0
    /\ StakedOn(day)
    /\ feed[day] = last_hp_price

\* C9: a day of a trend-gated run whose gate is closed appends no fee and
\* leaves cash unchanged, also when it is a settlement day; only the day
\* counter and, on a settlement day, the reference price change.
C9_ClosedGateDayFrame ==
    [][ ( /\ params.strategy \in TrendGated
          /\ day' = day + 1
          /\ data'.token1_price > last_hp_price ) =>
            /\ calculated_fees' = calculated_fees
            /\ cash' = cash
            /\ holding_period' = holding_period
            /\ bar_executed' = IF bar_executed + 1 = holding_period
                               THEN 0 ELSE bar_executed + 1
            /\ last_hp_price' = IF bar_executed + 1 = holding_period
                                THEN data'.token1_price ELSE last_hp_price ]_vars

\* A settlement day (of a 7-day window with earlier staking days) whose gate
\* was closed.
C9_Witness ==
    /\ params.strategy \in TrendGated
    /\ holding_period = 7
    /\ day = 2 * holding_period
    /\ ~StakedOn(day)
    /\ StakedOn(day - 1)
    /\ feed[day] > feed[holding_period]

\* C10: in a trend-gated run last_hp_price is the token1 price of the most
\* recent settlement day, or 1e20 before the first settlement.
C10_ReferenceIsLastSettlementPrice ==
    params.strategy \in TrendGated =>
        last_hp_price = IF LastSettlementDay = 0 THEN LAST_HP_PRICE_INIT
                        ELSE feed[LastSettlementDay]

\* The reference was replaced at a settlement whose gate was closed, and kept
\* on the day after.
C10_Witness ==
    /\ params.strategy \in TrendGated
    /\ holding_period = 7
    /\ day = 2 * holding_period + 1
    /\ ~StakedOn(2 * holding_period)
    /\ feed[2 * holding_period] # feed[holding_period]
    /\ feed[day] # feed[2 * holding_period]
    /\ last_hp_price = feed[2 * holding_period]

\* What a step that processes a day may move in cash: the entries of the
\* buffer that the day's add_cash read, less mint + burn under Bonus2.
DayCashMove ==
    LET read == { i \in 1..Len(credits') :
                    credits'[i] > (IF i <= Len(credits) THEN credits[i] ELSE 0) }
        mint_burn == Mul(params.pool.gas_for_mint_event * FromWei(data'.wei),
                         data'.token1_price)
                     + Mul(params.pool.gas_for_burn_event * FromWei(data'.wei),
                           data'.token1_price)
    IN  SumOver(calculated_fees', read)
        - (IF params.strategy = "bonus2" /\ read # {} THEN mint_burn ELSE 0)

\* C11 as stated: start() is the only step out of "created", it runs once and
\* before the first day, and deducts exactly swap gas units * gas price in
\* ether * token1 USD price; a day moves cash only by credited fees and
\* mint + burn, never by a swap cost.
C11_SwapCostIsTheProduct ==
    [][ /\ pc = "created" =>
            /\ pc' = "running" /\ day = 0 /\ day' = 0
            /\ cash' = cash - Mul(params.pool.gas_for_swap_event * FromWei(data.wei),
                                   data.token1_price)
        /\ pc # "created" => pc' # "created"
        /\ day' = day + 1 => cash' = cash + DayCashMove ]_vars

\* C11 amended: the amount start() deducts is that product rounded to two
\* decimals (round(initial_swap_cost, 2)); the rest as stated.
C11_SwapCostIsTheRoundedProduct ==
    [][ /\ pc = "created" =>
            /\ pc' = "running" /\ day = 0 /\ day' = 0
            /\ cash' = cash - Round2(Mul(params.pool.gas_for_swap_event
                                              * FromWei(data.wei),
                                          data.token1_price))
        /\ pc # "created" => pc' # "created"
        /\ day' = day + 1 => cash' = cash + DayCashMove ]_vars

\* A Bonus2 run that started at a token1 price of 1.01 (swap cost 0.0101,
\* deducted as 0.01) and whose first day then paid mint + burn.
C11_Witness ==
    /\ params.strategy = "bonus2"
    /\ feed_kind = "rising"
    /\ day = 2
    /\ feed[1] - PriceStep = ONE + PriceStep
    /\ start_cash = StartingCash - ONE \div 100
    /\ CashAfter(1) < start_cash
    /\ cash = CashAfter(1)

\* C12: with a holding period of 1 every day is a settlement with
\* bar_executed = 1; in each policy add_cash is called exactly on the days
\* that assigned fee (appended it to the buffer), and the amount the special
\* case credits is the sum of the last bar_executed entries of the buffer
\* (less mint + burn under Bonus2).
C12_SpecialCaseIsGeneralRule ==
    [][ (holding_period = 1 /\ day' = day + 1) =>
          LET added == \E i \in 1..Len(credits') :
                          credits'[i] > (IF i <= Len(credits) THEN credits[i] ELSE 0)
              mint_burn == IF params.strategy = "bonus2"
                           THEN Mul(params.pool.gas_for_mint_event * FromWei(data'.wei),
                                    data'.token1_price)
                                + Mul(params.pool.gas_for_burn_event * FromWei(data'.wei),
                                      data'.token1_price)
                           ELSE 0
          IN  /\ bar_executed = 0 /\ bar_executed' = 0
              /\ added <=> Len(calculated_fees') = Len(calculated_fees) + 1
              /\ added => cash' = cash + SumLastEntries(calculated_fees', bar_executed + 1)
                                   - mint_burn
              /\ ~added => cash' = cash /\ calculated_fees' = calculated_fees ]_vars

\* A trend-gated run with holding period 1 that staked and was credited on a
\* day after a day whose gate was closed, with older entries in the buffer.
C12_Witness ==
    /\ params.strategy \in TrendGated
    /\ holding_period = 1
    /\ day >= 3
    /\ ~StakedOn(day - 1)
    /\ StakedOn(day)
    /\ Len(calculated_fees) >= 2
    /\ credits[Len(credits)] = 1
    /\ CashAfter(day) # CashAfter(day - 1)

\* C13: under the Simple policy with holding period 1, cash after every day
\* n > 1 is cash after day n - 1 plus the fee computed on day n.
C13_SimpleDailyCredit ==
    (params.strategy = "simple" /\ holding_period = 1) =>
        \A n \in 2..day :
            /\ fee_day[n] = n
            /\ CashAfter(n) = CashAfter(n - 1) + calculated_fees[n]

\* Three days of such a run, with fees that differ from day to day.
C13_Witness ==
    /\ params.strategy = "simple"
    /\ holding_period = 1
    /\ day >= 3
    /\ calculated_fees[day] > 0
    /\ calculated_fees[day] # calculated_fees[day - 1]
    /\ cash = CashAfter(day - 1) + calculated_fees[day]

\* C14: the holding period is 1 when |lower%| <= 0.12, 7 when
\* 0.12 < |lower%| <= 0.25 and 30 otherwise; it is one of 1, 7, 30 and is the
\* same in every state of the run.
C14_HoldingPeriodFromRange ==
    LET lower == IF params.lp_range[1] < 0 THEN -params.lp_range[1]
                                            ELSE params.lp_range[1]
    IN  /\ holding_period \in {1, 7, 30}
        /\ lower <= 12 * (ONE \div 100) => holding_period = 1
        /\ (12 * (ONE \div 100) < lower /\ lower <= 25 * (ONE \div 100))
               => holding_period = 7
        /\ lower > 25 * (ONE \div 100) => holding_period = 30

\* A run whose range sits on the upper threshold (25%), after its first
\* settlement on day 7.
C14_Witness ==
    /\ params.lp_range[1] = -(25 * (ONE \div 100))
    /\ holding_period = 7
    /\ day = 8
    /\ bar_executed = 1

\* C15: get_liquidity_for_amounts returns, for a price below the range and
\* for a price inside it, the minimum of the amount0-based and the
\* amount1-based estimate, and for a price at or above the upper bound the
\* amount1-based estimate alone (the range being ordered).
C15_ThreeWayBranch ==
    (/\ call.fn = "get_liquidity_for_amounts"
     /\ result # Pending
     /\ call.sqrt_ratio_ax96 < call.sqrt_ratio_bx96) =>
        LET x  == call.sqrt_ratio_x96
            a  == call.sqrt_ratio_ax96
            b  == call.sqrt_ratio_bx96
            l1 == get_liquidity_for_amount1(a, b, call.amount1)
        IN  /\ result.status = "returned"
            /\ result.value =
                   IF x < b
                   THEN Min(get_liquidity_for_amount0(x, b, call.amount0),
                            get_liquidity_for_amount1(a, x, call.amount1))
                   ELSE l1

\* The USD value of the returned legs, in units of 1/ONE of the fixed-point
\* unit (the exact products, not rounded).
LegsValue ==
    result.value[1] * call.price_usd_x + result.value[2] * call.price_usd_y

\* A call of get_token_amounts_from_deposit_amounts with a positive target
\* and the price strictly inside the range has been answered.
InRangeDeposit ==
    /\ call.fn = "get_token_amounts_from_deposit_amounts"
    /\ result # Pending
    /\ call.target_amount > 0
    /\ call.price_lower_bound < call.price
    /\ call.price < call.price_upper_bound

LegValueX == Mul(result.value[1], call.price_usd_x)

LegValueY == Mul(result.value[2], call.price_usd_y)

\* C17 as stated: for every input, the price outside the range included, the
\* USD value of each returned leg lies in [0, target].
C17_EachLegWithinTarget ==
    (call.fn = "get_token_amounts_from_deposit_amounts" /\ result.status = "returned") =>
        /\ 0 <= LegValueX /\ LegValueX <= call.target_amount
        /\ 0 <= LegValueY /\ LegValueY <= call.target_amount

\* C17 amended: for every input with a target >= 0 and positive USD prices
\* on which the function returns, the price outside the range included, the
\* USD value of each returned leg lies in [0, target]; a leg is never
\* negative and never above target / its USD price.
C17_EachLegWithinNonNegativeTarget ==
    ( /\ call.fn = "get_token_amounts_from_deposit_amounts"
      /\ result.status = "returned"
      /\ call.target_amount >= 0 ) =>
        /\ 0 <= LegValueX /\ LegValueX <= call.target_amount
        /\ 0 <= LegValueY /\ LegValueY <= call.target_amount
        /\ 0 <= result.value[1]
        /\ result.value[1] * call.price_usd_x < (call.target_amount + 1) * ONE
        /\ 0 <= result.value[2]
        /\ result.value[2] * call.price_usd_y < (call.target_amount + 1) * ONE

\* A call with the price below the range: the token-y leg came out negative
\* and was replaced by 0, the token-x leg was over budget and was replaced by
\* target / price_usd_x.
C17_Witness ==
    /\ call.fn = "get_token_amounts_from_deposit_amounts"
    /\ result.status = "returned"
    /\ call.target_amount > 0
    /\ call.price < call.price_lower_bound
    /\ result.value[2] = 0
    /\ result.value[1] = Div(call.target_amount, call.price_usd_x)

\* The percentage of the tier table for the recognized tiers (0.01%, 0.05%,
\* 0.3%, 1%), in hundredths of a fixed-point unit.
TierHundredths(tier) ==
    IF tier = 100 THEN 100 ELSE IF tier = 500 THEN 500
    ELSE IF tier = 3000 THEN 3000 ELSE IF tier = 10000 THEN 10000 ELSE 0

\* pct(tier) * volume * delta_liquidity / (liquidity + delta_liquidity),
\* rounded once (down).  The volumes and liquidities of the grid are whole
\* numbers.
FeeFormula ==
    LET pv == (TierHundredths(call.pool_fee_tier) * (call.volume \div ONE)) \div 100
    IN  (pv * (call.delta_liquidity \div ONE))
            \div ((call.liquidity + call.delta_liquidity) \div ONE)

\* C18: whenever liquidity + delta_liquidity is not 0, calculate_fee returns
\* pct(tier) * volume * delta_liquidity / (liquidity + delta_liquidity), here
\* up to the rounding of the share (one unit in its last place); for tier
\* 3000, liquidity and delta liquidity in the ratio 100 : 1 and volume 1000
\* that is 0.0297 (the 2.9703 of a volume of 100,000, scaled by 1/100).
C18_FeeIsShareOfVolume ==
    ( /\ call.fn = "calculate_fee"
      /\ result # Pending
      /\ call.liquidity + call.delta_liquidity # 0 ) =>
        /\ result.status = "returned"
        /\ result.value <= FeeFormula
        /\ FeeFormula - result.value
              <= Mul(get_tier_percentage(call.pool_fee_tier), call.volume) \div ONE + 1
        /\ ( /\ call.pool_fee_tier = 3000 /\ call.liquidity = 100 * ONE
              /\ call.volume = 1000 * ONE /\ call.delta_liquidity = ONE )
               => result.value = 297

\* The call of the example has returned.
C18_Witness ==
    /\ call.fn = "calculate_fee"
    /\ call.pool_fee_tier = 3000
    /\ call.liquidity = 100 * ONE
    /\ call.volume = 1000 * ONE
    /\ call.delta_liquidity = ONE
    /\ result = Returned(297)

\* A call of calculate_fee with a recognized tier, positive pool liquidity,
\* and non-negative volume and delta liquidity has returned.
FeeCallInDomain ==
    /\ call.fn = "calculate_fee"
    /\ result.status = "returned"
    /\ call.pool_fee_tier \in {100, 500, 3000, 10000}
    /\ call.liquidity > 0
    /\ call.volume >= 0
    /\ call.delta_liquidity >= 0

\* C19: for a recognized tier, positive pool liquidity and non-negative
\* volume and delta liquidity, the fee does not decrease when the volume or
\* the delta liquidity grows, and does not increase when the pool liquidity
\* grows (the other arguments held fixed).
C19_FeeMonotone ==
    FeeCallInDomain =>
        /\ \A v \in Volumes : v >= call.volume =>
               calculate_fee(call.delta_liquidity, call.liquidity, v,
                             call.pool_fee_tier) >= result.value
        /\ \A d \in DeltaLiquidities : d >= call.delta_liquidity =>
               calculate_fee(d, call.liquidity, call.volume,
                             call.pool_fee_tier) >= result.value
        /\ \A l \in Liquidities : l >= call.liquidity =>
               calculate_fee(call.delta_liquidity, l, call.volume,
                             call.pool_fee_tier) <= result.value

\* A call in that domain whose fee is positive and changes strictly in each
\* of the three arguments.
C19_Witness ==
    /\ FeeCallInDomain
    /\ result.value > 0
    /\ \E v \in Volumes :
           calculate_fee(call.delta_liquidity, call.liquidity, v,
                         call.pool_fee_tier) > result.value
    /\ \E d \in DeltaLiquidities :
           calculate_fee(d, call.liquidity, call.volume,
                         call.pool_fee_tier) > result.value
    /\ \E l \in Liquidities :
           /\ l > call.liquidity
           /\ calculate_fee(call.delta_liquidity, l, call.volume,
                            call.pool_fee_tier) < result.value

\* C20: when, on a day that stakes, the pool liquidity plus the position's
\* delta liquidity is 0, the run aborts in calculate_fee: no fee is appended,
\* cash is not credited, the day is not counted, and no later day is
\* processed.  Every other day of a running strategy is processed.
C20_ZeroDivisionAbortsRun ==
    [][ /\ pc # "aborted"
        /\ pc = "running" =>
              LET staking == \/ params.strategy = "simple"
                             \/ data'.token1_price <= last_hp_price
              IN  IF staking /\ data'.liquidity + DayDeltaLiquidity(data', cash) = 0
                  THEN /\ pc' = "aborted"
                       /\ calculated_fees' = calculated_fees
                       /\ cash' = cash
                       /\ bar_executed' = bar_executed
                       /\ last_hp_price' = last_hp_price
                       /\ day' = day
                       /\ cash_log' = cash_log
                  ELSE /\ pc' = "running"
                       /\ day' = day + 1 ]_vars

\* A Bonus2 run with a 7-day window over an empty pool: the first settlement
\* left cash at 0, and the next staking day aborted the run.
C20_Witness ==
    /\ pc = "aborted"
    /\ params.strategy = "bonus2"
    /\ holding_period = 7
    /\ day >= holding_period
    /\ data.liquidity = 0
    /\ cash = 0
    /\ Len(calculated_fees) = holding_period
    /\ Len(cash_log) = day

\* C21: get_tier_percentage returns 0.0001 for tier 100, 0.0005 for tier 500,
\* 0.003 for tier 3000, 0.01 for tier 10000, and for every other tier it
\* returns 0.0 and does not raise.  (One unit is 0.0001.)
C21_TierTable ==
    (call.fn = "get_tier_percentage" /\ result # Pending) =>
        /\ result.status = "returned"
        /\ result.value = CASE call.tier = 100   -> 1
                             [] call.tier = 500   -> 5
                             [] call.tier = 3000  -> 30
                             [] call.tier = 10000 -> 100
                             [] OTHER             -> 0

\* A tier next to one of the table has been looked up.
C21_Witness ==
    /\ call.fn = "get_tier_percentage"
    /\ call.tier = 2999
    /\ result = Returned(0)

\* C22: over a pool whose fee tier is not in the table the run does not
\* fail: every staked day's fee is 0, a settlement credits no fee income (a
\* day moves cash by nothing, or under Bonus2 by minus mint + burn), and under
\* Simple the cash after every day is the cash right after the setup deduction.
C22_UnlistedTierEarnsNothing ==
    /\ pc # "aborted"
    /\ \A i \in 1..Len(calculated_fees) : calculated_fees[i] = 0
    /\ \A n \in 1..day :
          LET move == CashAfter(n) - CashAfter(n - 1)
          IN  IF params.strategy = "bonus2"
              THEN move \in {0, -MintBurnPrice(FALSE, RowAt(n))}
              ELSE move = 0
    /\ params.strategy = "simple" => \A n \in 0..day : CashAfter(n) = start_cash

\* A Simple run with a holding period of 7 has settled twice.
C22_Witness ==
    /\ params.pool.pool_fee_tier = UnlistedTier
    /\ params.strategy = "simple"
    /\ holding_period = 7
    /\ day = 14
    /\ Len(calculated_fees) = 14
    /\ credits[14] = 1
    /\ cash = start_cash

\* The range handed to the call is degenerate (lower = upper) or inverted
\* (lower > upper), and the call has been answered.
UnorderedRangeCall ==
    /\ result # Pending
    /\ \/ /\ call.fn = "get_token_amounts_from_deposit_amounts"
          /\ call.price_lower_bound >= call.price_upper_bound
       \/ /\ call.fn = "get_liquidity_for_amounts"
          /\ call.sqrt_ratio_ax96 >= call.sqrt_ratio_bx96

\* C23: handed a degenerate or an inverted price range, the deposit solver
\* and the liquidity formula raise an error; they never return token amounts
\* or a liquidity computed for such a range.
C23_UnorderedRangeRaises ==
    UnorderedRangeCall => result.status = "raised"

\* backtest_uniswap_v3 has been called with an LP range whose two percentages
\* differ in absolute value.
AsymmetricCall ==
    /\ call.fn = "backtest_uniswap_v3"
    /\ call.lp_range # <<>>
    /\ Abs(call.lp_range[1]) # Abs(call.lp_range[2])

\* C24: backtest_uniswap_v3 given an LP range whose lower and upper percentage
\* differ in absolute value raises before any data is gathered and before any
\* simulation day: the only step of such a call is the sanity check, taken
\* once, and it ends raised with no pool gathered, no run started and no
\* result stored.
C24_AsymmetricRangeRejected ==
    [][AsymmetricCall =>
         /\ result = Pending
         /\ result'.status = "raised"
         /\ result'.u3s = 0
         /\ result'.results = <<>>
         /\ pc' = "idle"
         /\ day' = 0
         /\ call.pool_pairs # <<>> => result'.value = "LP range has to be the same"]_vars

\* A call with a parseable pool pair, known strategies and the range
\* [-10 %, 20 %] has been rejected.
C24_Witness ==
    /\ AsymmetricCall
    /\ call.lp_range = <<-(ONE \div 10), ONE \div 5>>
    /\ call.pool_pairs = <<"eth-usdc">>
    /\ call.strategy_names = <<"simple", "bonus2">>
    /\ result.status = "raised"
    /\ result.value = "LP range has to be the same"
    /\ pc = "idle"

\* The call names a strategy identifier that is not one of simple, bonus1,
\* bonus2.
HasUnknownName ==
    /\ call.fn \in {"backtest_uniswap_v3", "backtest_strategies"}
    /\ \E i \in 1..Len(call.strategy_names) :
          call.strategy_names[i] \notin {"simple", "bonus1", "bonus2"}

\* C25 as stated: an identifier that is not one of simple, bonus1, bonus2 is
\* detected before simulation starts and is fatal: the call never passes the
\* sanity check, never creates a run and never returns results.
C25_UnknownNameIsFatal ==
    HasUnknownName =>
        /\ pc = "idle"
        /\ result.status \notin {"checked", "gathered", "returned"}

RECURSIVE KnownOf(_)
\* The identifiers of the list that are one of simple, bonus1, bonus2, in
\* the list's order.
KnownOf(names) ==
    IF names = <<>> THEN <<>>
    ELSE IF Head(names) \in {"simple", "bonus1", "bonus2"}
         THEN <<Head(names)>> \o KnownOf(Tail(names))
         ELSE KnownOf(Tail(names))

RECURSIVE KnownPrefix(_)
\* The identifiers of the list before its first one that is not one of
\* simple, bonus1, bonus2.
KnownPrefix(names) ==
    IF names = <<>> \/ Head(names) \notin {"simple", "bonus1", "bonus2"} THEN <<>>
    ELSE <<Head(names)>> \o KnownPrefix(Tail(names))

\* The identifiers the call has served, is serving and will serve.
Served ==
    result.results
    \o (IF pc \in {"created", "running"} THEN <<params.strategy>> ELSE <<>>)
    \o result.queue

\* C25 amended: backtest_uniswap_v3 drops every identifier that is not one of
\* simple, bonus1, bonus2 and serves the others in their order; its sanity
\* check raises for the names only when none of them is known.
\* backtest_strategies called on its own runs the identifiers before the
\* first unknown one and then raises.  No run is ever created for an unknown
\* identifier.
C25_UnknownNameSkippedOrRaisedAtItsTurn ==
    /\ pc # "idle" => params.strategy \in {"simple", "bonus1", "bonus2"}
    /\ (call.fn = "backtest_uniswap_v3" /\ result # Pending) =>
          /\ result.status # "raised" => Served = KnownOf(call.strategy_names)
          /\ (call.pool_pairs # <<>> /\ ~AsymmetricCall) =>
                ((result.status = "raised"
                  /\ result.value = "No strategy name was provided.")
                     <=> KnownOf(call.strategy_names) = <<>>)
    /\ (call.fn = "backtest_strategies" /\ result # Pending) =>
          /\ result.status = "raised" =>
                /\ HasUnknownName
                /\ result.value = "Unknown strategy"
                /\ result.results = KnownPrefix(call.strategy_names)
                /\ pc \in {"idle", "finished"}
          /\ result.status = "returned" => ~HasUnknownName

\* backtest_uniswap_v3 called with an unknown identifier and a known one has
\* run the known one to the end of the feed and returned.
C25_Witness ==
    /\ call.fn = "backtest_uniswap_v3"
    /\ call.strategy_names = <<"hodl", "bonus1">>
    /\ result.status = "returned"
    /\ result.results = <<"bonus1">>
    /\ params.strategy = "bonus1"
    /\ day = RisingDays

AfterDay(c, bar, fees, ref, row) ==
    LET gated    == params.strategy \in {"bonus1", "bonus2"}
        closed   == gated /\ row.token1_price > ref
        fee      == calculate_fee(DayDeltaLiquidity(row, c), row.liquidity, row.volume,
                                  params.pool.pool_fee_tier)
        fees1    == IF closed THEN fees ELSE Append(fees, fee)
        bar1     == bar + 1
        settles  == bar1 = HoldingPeriod(params.lp_range)
        credited == IF bar1 = 1 THEN fee ELSE SumLastEntries(fees1, bar1)
        cost     == IF params.strategy = "bonus2"
                    THEN GasCost(params.pool.gas_for_mint_event, row)
                         + GasCost(params.pool.gas_for_burn_event, row)
                    ELSE 0
    IN  [cash            |-> IF settles /\ ~closed THEN c + (credited - cost) ELSE c,
         bar_executed    |-> IF settles THEN 0 ELSE bar1,
         calculated_fees |-> fees1,
         last_hp_price   |-> IF settles /\ gated THEN row.token1_price ELSE ref]

\* The strategy's state.
RunState ==
    [cash |-> cash, bar_executed |-> bar_executed, calculated_fees |-> calculated_fees,
     last_hp_price |-> last_hp_price]

C28_InterleavedRunsAsAlone ==
    [][IF result' = result
       THEN /\ params' = params
            /\ pc = "created" =>
                  /\ day' = day
                  /\ RunState' = [RunState EXCEPT !.cash =
                                     cash - Round2(GasCost(params.pool.gas_for_swap_event,
                                                           data))]
            /\ pc = "running" =>
                  /\ day' = day + 1
                  /\ data'.token1_price = SharedPrice(day')
                  /\ RunState' = AfterDay(cash, bar_executed, calculated_fees,
                                          last_hp_price, data')
       ELSE /\ result' = ActiveRun
            /\ ActiveRun' = result]_vars

\* A Bonus2 run has reached the end of the data while a Simple run that took
\* its turns in between is at day 7; their brokers differ.
C28_Witness ==
    /\ call.fn = "pair"
    /\ params.strategy = "bonus2"
    /\ day = PairDays
    /\ result.params.strategy = "simple"
    /\ result.day = 7
    /\ result.cash # cash
    /\ Len(result.calculated_fees) = 7

\* C29: no step enforces a floor on cash.  start() deducts the rounded swap
\* cost and a settlement adds the credited fees less mint + burn whatever the
\* balance: when the cost exceeds what is there cash becomes negative, the
\* negative value is what is committed, and the run goes on to the next day.
C29_NoFloorOnCash ==
    [][/\ pc = "created" =>
             LET cost == Round2(GasCost(params.pool.gas_for_swap_event, data))
             IN  /\ cash' = cash - cost
                 /\ cost > cash => cash' < 0
       /\ pc = "running" =>
             /\ day' = day + 1
             /\ cash' = cash + DayCashMove
             /\ cash_log'[day'] = cash'
             /\ -DayCashMove > cash => cash' < 0
       /\ pc' = "running"]_vars

\* A Bonus2 run that started with 0.04 USD went negative at its second
\* settlement and has processed two more days since.
C29_Witness ==
    /\ params.strategy = "bonus2"
    /\ holding_period = 1
    /\ start_cash = 3 * (ONE \div 100)
    /\ day = 4
    /\ cash_log[1] >= 0
    /\ cash_log[2] < 0
    /\ cash_log[4] < cash_log[2]
    /\ Len(calculated_fees) = 4
    /\ pc = "running"

\* C30 as stated: tick_to_price(0) is 1, and for the ticks a and b of the
\* range tick_to_price(a) * tick_to_price(b) equals tick_to_price(a + b).
C30_TickHomomorphism ==
    (call.fn = "tick_to_price" /\ result # Pending) =>
        /\ result.status = "returned"
        /\ call.tick = 0 => result.value = ONE
        /\ \A b \in TickInputs :
              Mul(result.value, tick_to_price(b)) = tick_to_price(call.tick + b)

\* C30 amended: tick_to_price(0) is exactly 1, and the product
\* tick_to_price(a) * tick_to_price(b) differs from tick_to_price(a + b) by
\* no more than the rounding error of the arithmetic (two fixed-point units
\* here; one unit in the last place of a float in the program).
C30_TickHomomorphismUpToRounding ==
    (call.fn = "tick_to_price" /\ result # Pending) =>
        /\ result.status = "returned"
        /\ call.tick = 0 => result.value = ONE
        /\ \A b \in TickInputs :
              Abs(Mul(result.value, tick_to_price(b)) - tick_to_price(call.tick + b)) <= 2

\* The price of tick 200 has been computed; it shows the compounding (1.0201
\* against 1.02 for 200 steps of 0.01 %).
C30_Witness ==
    /\ call.fn = "tick_to_price"
    /\ call.tick = 200
    /\ result.status = "returned"
    /\ result.value > ONE + 200
    /\ Mul(result.value, tick_to_price(-200)) < ONE

\* C31: under every policy a day takes the settlement branch (bar_executed is
\* reset) exactly when its number is a positive multiple of the holding
\* period, whether or not the gate was closed on the day or in its window;
\* cash changes on no other day after start(), so the target amount of every
\* day is the cash left by the last settlement day.
C31_SettlesOnMultiplesOfHoldingPeriod ==
    [][ day' = day + 1 =>
          /\ bar_executed' = 0 <=> day' % holding_period = 0
          /\ cash' # cash => day' % holding_period = 0
          /\ cash = CashAfter(LastSettlementDay) ]_vars

\* A trend-gated run with holding period 7 has settled on day 14 although the
\* gate was closed on a day of the second window, and an earlier settlement
\* changed the cash.
C31_Witness ==
    /\ params.strategy \in TrendGated
    /\ holding_period = 7
    /\ day = 14
    /\ bar_executed = 0
    /\ \E n \in 8..14 : ~StakedOn(n)
    /\ \E n \in 8..14 : StakedOn(n)
    /\ cash_log[7] # start_cash

\* A call of get_average_gas is in its query loop or averaging.
InGetAverageGas == result.status \in {"querying", "averaging"}

\* C32: get_average_gas ends, with an average or an exception, whatever the
\* log queries answer: each pass of the loop leaves it, raises, counts one
\* more failure (at most max_halving_attempts of them) or looks a week further
\* back (only while n_days is below max_days).
C32_GetAverageGasTerminates ==
    /\ [][ result.status = "querying" =>
             \/ result'.status \in {"averaging", "raised"}
             \/ /\ result'.status = "querying"
                /\ result'.attempt = result.attempt + 1
                /\ result'.attempt <= MaxHalvingAttempts
                /\ result'.n_days = result.n_days
             \/ /\ result'.status = "querying"
                /\ result'.n_days = result.n_days + WeekInDays
                /\ result.n_days < result._max_days
                /\ result'.attempt = result.attempt ]_vars
    /\ InGetAverageGas ~> result.status \in {"returned", "raised"}

\* The call has raised after max_halving_attempts counted failures and one
\* more, having also looked a week further back once.
C32_Witness ==
    /\ result.status = "raised"
    /\ result.value = "Can not estimate gas."
    /\ result.attempt = MaxHalvingAttempts
    /\ result.n_days = 1 + WeekInDays
    /\ result.log_queries = MaxHalvingAttempts + 2

\* The step is a pass of the query loop whose _get_logs raised and after
\* which the loop goes on.
FailedQueryStep ==
    /\ result.status = "querying"
    /\ result'.status = "querying"
    /\ result'.attempt # result.attempt

\* C33: after a failed log query over [start_block, end_block] the next query
\* keeps end_block and covers half as many blocks as the failed one, so
\* successive failures query strictly shrinking windows.
C33_FailureHalvesTheWindow ==
    [][ FailedQueryStep =>
          /\ result'.end_block = result.end_block
          /\ result'.end_block - result'.start_block
               = IntHalf(result.end_block - result.start_block)
          /\ result'.end_block - result'.start_block
               < result.end_block - result.start_block ]_vars

\* C34: while no query has failed, every log query covers at most
\* max_days * 6400 blocks before end_block.
C34_LooksBackAtMostMaxDays ==
    (result.status = "querying" /\ result.attempt = 0) =>
        result.end_block - result.start_block <= result._max_days * BlocksPerDay

\* C37: when get_average_gas has left its query loop, the receipts it averages
\* are more than min_transaction_count, at most max_transaction_count and at
\* least one, so the division by their number does not raise.
C37_AveragesNonEmptyList ==
    /\ (result.status = "returned" /\ result.calls = 1) =>
          /\ result.logs > 0
          /\ result.logs > result._min_transaction_count
          /\ result.logs <= result._max_transaction_count
    /\ result.status = "raised" => result.value # "ZeroDivisionError"

\* C35: on every day that stakes, under every policy, the bounds derived from
\* the price assumption value p and the symmetric range r satisfy
\* p * (1 - r) < p < p * (1 + r), the square-root price lies strictly between
\* those of the bounds, and the liquidity of the day is the amount1 estimate
\* over the whole range (the second branch of get_liquidity_for_amounts).
C35_PriceStrictlyInsideRange ==
    [][ Len(calculated_fees') > Len(calculated_fees) =>
          LET row == data'
              d0  == params.pool.token0_decimals
              d1  == params.pool.token1_decimals
              r   == Abs(params.lp_range[1])
              p   == DayPrice(row)
              sqrt_ratio_x96  == get_sqrt_price_x96(p, d0, d1)
              sqrt_ratio_ax96 == get_sqrt_price_x96(DayPriceLower(row), d0, d1)
              sqrt_ratio_bx96 == get_sqrt_price_x96(DayPriceUpper(row), d0, d1)
              amount1 == expand_decimals(DayAmounts(row, cash)[2], d0)
              estimate1 == get_liquidity_for_amount1(sqrt_ratio_ax96, sqrt_ratio_bx96,
                                                     amount1)
          IN  /\ DayPriceLower(row) = Mul(p, ONE - r)
              /\ DayPriceUpper(row) = Mul(p, ONE + r)
              /\ DayPriceLower(row) < p
              /\ p < DayPriceUpper(row)
              /\ sqrt_ratio_ax96 < sqrt_ratio_x96
              /\ sqrt_ratio_x96 < sqrt_ratio_bx96
              /\ calculated_fees'[Len(calculated_fees')]
                   = calculate_fee(estimate1, row.liquidity, row.volume,
                                   params.pool.pool_fee_tier) ]_vars

\* A trend-gated run over tick 300 (p below 1) with the range 99.99 % has
\* staked on two days.
C35_Witness ==
    /\ params.strategy \in TrendGated
    /\ params.lp_range[2] = ONE - 1
    /\ data.tick = 300
    /\ DayPrice(data) < ONE
    /\ Len(calculated_fees) = 2

\* C36: for a pool liquidity above 0, a delta liquidity and a volume of at
\* least 0 and every fee tier, the fee returned by calculate_fee is at least 0
\* and at most the whole fee revenue of the day, pct(tier) * volume.
C36_FeeWithinDayRevenue ==
    ( /\ call.fn = "calculate_fee"
      /\ result # Pending
      /\ call.delta_liquidity >= 0
      /\ call.liquidity > 0
      /\ call.volume >= 0 ) =>
        /\ result.status = "returned"
        /\ 0 <= result.value
        /\ result.value <= Mul(get_tier_percentage(call.pool_fee_tier), call.volume)

\* A position twenty times the pool has been given its fee at the 1 % tier: it
\* is positive and below the day's revenue.
C36_Witness ==
    /\ call.fn = "calculate_fee"
    /\ call.pool_fee_tier = 10000
    /\ call.delta_liquidity = 20 * ONE
    /\ call.liquidity = ONE
    /\ call.volume = 1000 * ONE
    /\ result.status = "returned"
    /\ result.value > 0
    /\ result.value < Mul(get_tier_percentage(call.pool_fee_tier), call.volume)

====
